---- MODULE Spec2Model ----
(***************************************************************************)
(* ghost-server: the request-processing pipeline (upload.rs, state.rs,     *)
(* quota.rs, handlers.rs) and what stands in front of it (rate_limit.rs,   *)
(* main.rs, middleware.rs, auth.rs, stripe_api.rs, plans.rs,               *)
(* ghostscript.rs).                                                        *)
(*                                                                         *)
(* The specifications of the module:                                       *)
(*   SpecUpload     one call of save_pdf_from_multipart or                 *)
(*                  save_pdf_with_mode_from_multipart, one step per        *)
(*                  awaited multipart field / chunk;                       *)
(*   Spec           NumReqs concurrent requests, one step per suspension   *)
(*                  point of the handler, with cancellation (future        *)
(*                  dropped) and panic (unwinding) as additional exits;    *)
(*   SpecLimiter    NumCallers threads calling check_and_count;            *)
(*   SpecRouter     requests passing the middleware of their route;        *)
(*   SpecJwks       NumVerifiers verifications reading the JWKS cache;     *)
(*   SpecSignature  one call of verify_webhook_signature;                  *)
(*   SpecWebhook    one request to POST /api/stripe/webhook, one step per  *)
(*                  awaited backend call;                                  *)
(*   SpecAnalyze    the colour profiles analyze_pdf builds;                *)
(*   SpecFormfields the form field scan of analyze_pdf;                    *)
(*   SpecSanitize   sanitize_base_name, applied once and twice;            *)
(*   SpecIdentity   one call of client_identity;                           *)
(*   SpecReserve    one call of reserve_units_for_clerk_user;              *)
(*   SpecGrayscale  one grayscale request with the upload it received;     *)
(*   SpecFallback   NumFallbacks threads calling log_pdfinfo_fallback;     *)
(*   SpecAdmission  NumJobs callers of run_ghostscript_job, with the       *)
(*                  fairness of the semaphore and of the runtime;          *)
(*   SpecIssuer     verify_token's issuer check and get_jwks over a        *)
(*                  sequence of tokens;                                    *)
(*   SpecSync       NumSyncs concurrent subscription syncs of one user.    *)
(***************************************************************************)
EXTENDS Integers, Sequences, FiniteSets, TLC

VARIABLES sink, req, permits, orphans,
          clock, buckets, caller, admitted,
          http, limiters,
          jwks_cache, verifier, jwks_log,
          webhook, hook,
          calc

pipelineVars == <<sink, req, permits, orphans>>

\* the rate limiter of rate_limit.rs and its callers
limiterVars == <<clock, buckets, caller, admitted>>

\* the route table of main.rs with its middleware, one record per connection
routerVars == <<http, limiters>>

\* the JWKS cache of auth.rs and the verifications that read it
jwksVars == <<jwks_cache, verifier, jwks_log>>

\* one call of StripeApi::verify_webhook_signature, and one request to
\* POST /api/stripe/webhook
webhookVars == <<webhook, hook>>

\* the specifications that follow one function or one shared object alone
\* (PDF toolchain, client_identity, quota plan, fallback flag, semaphore,
\* issuer check, subscription sync) keep its state in the record `calc`
toolVars == <<calc>>

\* everything in front of the processing pipeline
frontVars == <<limiterVars, routerVars, jwksVars, webhookVars, toolVars>>

vars == <<pipelineVars, frontVars>>

(***************************************************************************)
(* Bounds of the model.                                                    *)
(***************************************************************************)
MaxFields == 3
MaxChunks == 2
MaxChunkLen == 2
MaxBudget == 2
NumReqs == 2
ghostscript_concurrency == 1
window == 2
max_requests == 2
MaxTicks == 3
NumCallers == 2
jwks_ttl == 2
NumVerifiers == 2
IntBits == 11
MaxParts == 2
MaxItems == 2
MaxLines == 3
MaxPages == 3
MaxPad == 2
NameCap == 3
MaxNameLen == 5
MaxTokens == 2
NumFallbacks == 3
NumJobs == 3
NumSyncs == 2

Reqs == 1..NumReqs

(***************************************************************************)
(* Upload Sink (upload.rs).                                                *)
(***************************************************************************)
SinkFns == {"save_pdf_from_multipart", "save_pdf_with_mode_from_multipart"}

UploadError == {"MissingFile", "UnsupportedFileType", "FileTooLarge",
                "MultipartError", "IoError"}

FieldTexts == {"", "preview", "production", "bogus"}

\* what multipart.next_field().await can yield, together with the outcome of
\* the awaits that directly follow it (File::create, field.text())
FieldEvents ==
    {[t |-> "end"], [t |-> "field_err"], [t |-> "other"]}
    \cup [t : {"file"}, pdf : BOOLEAN, create_ok : BOOLEAN]
    \cup [t : {"text"}, name : {"mode", "engine"}, ok : BOOLEAN, value : FieldTexts]

\* what field.chunk().await can yield, together with the outcome of the
\* write_all / flush that follows it
ChunkEvents ==
    {[t |-> "chunk_err"]}
    \cup [t : {"data"}, n : 0..MaxChunkLen, write_ok : BOOLEAN]
    \cup [t : {"eof"}, flush_ok : BOOLEAN]

SinkIdle ==
    [fn |-> "none", max_size_bytes |-> 0, pc |-> "idle", nfields |-> 0,
     nchunks |-> 0, total_size |-> 0, onDisk |-> FALSE, uploaded |-> FALSE,
     mode |-> "", engine |-> "", result |-> "none", fault |-> FALSE]

SinkStart(fn, max) ==
    [SinkIdle EXCEPT !.fn = fn, !.max_size_bytes = max, !.pc = "next_field"]

SinkReturn(s, res) == [s EXCEPT !.pc = "done", !.result = res]

ExceedsBudgetOffByOne(total_size, max_size_bytes) == total_size >= max_size_bytes

\* `if total_size > max_size_bytes`
ExceedsBudget(total_size, max_size_bytes) == total_size > max_size_bytes

\* one iteration of `while let Some(field) = multipart.next_field().await`
SinkFieldStep(s, ev) ==
    LET n == [s EXCEPT !.nfields = @ + 1] IN
    CASE ev.t = "field_err" -> SinkReturn([n EXCEPT !.fault = TRUE], "MultipartError")
      [] ev.t = "end" ->
            IF s.fn = "save_pdf_with_mode_from_multipart" /\ s.uploaded
            THEN SinkReturn(s, "Ok")
            ELSE SinkReturn(s, "MissingFile")
      [] ev.t = "other" -> n
      [] ev.t = "text" ->
            IF s.fn = "save_pdf_from_multipart" THEN n
            ELSE IF ~ev.ok THEN SinkReturn([n EXCEPT !.fault = TRUE], "MultipartError")
            ELSE IF ev.value = "" THEN n
            ELSE IF ev.name = "mode" THEN [n EXCEPT !.mode = ev.value]
            ELSE [n EXCEPT !.engine = ev.value]
      [] ev.t = "file" ->
            IF s.uploaded THEN n
            ELSE IF ~ev.pdf THEN SinkReturn(n, "UnsupportedFileType")
            ELSE IF ~ev.create_ok THEN SinkReturn([n EXCEPT !.fault = TRUE], "IoError")
            ELSE [n EXCEPT !.onDisk = TRUE, !.total_size = 0, !.nchunks = 0, !.pc = "chunk"]

\* one iteration of `while let Some(chunk) = field.chunk().await`, or its end
SinkChunkStep(s, ev) ==
    CASE ev.t = "chunk_err" -> SinkReturn([s EXCEPT !.fault = TRUE], "MultipartError")
      [] ev.t = "data" ->
            LET total == s.total_size + ev.n
                n == [s EXCEPT !.total_size = total, !.nchunks = @ + 1] IN
            IF ExceedsBudget(total, s.max_size_bytes)
            THEN SinkReturn([n EXCEPT !.onDisk = FALSE], "FileTooLarge")
            ELSE IF ~ev.write_ok THEN SinkReturn([n EXCEPT !.fault = TRUE], "IoError")
            ELSE n
      [] ev.t = "eof" ->
            IF ~ev.flush_ok THEN SinkReturn([s EXCEPT !.fault = TRUE], "IoError")
            ELSE IF s.fn = "save_pdf_from_multipart" THEN SinkReturn(s, "Ok")
            ELSE [s EXCEPT !.uploaded = TRUE, !.pc = "next_field"]

SinkStep(s, ev) ==
    IF s.pc = "next_field" /\ ev.t \in {"end", "field_err", "other", "file", "text"}
    THEN SinkFieldStep(s, ev)
    ELSE IF s.pc = "chunk" /\ ev.t \in {"chunk_err", "data", "eof"}
    THEN SinkChunkStep(s, ev)
    ELSE s

RECURSIVE SinkRun(_, _)
SinkRun(s, evs) ==
    IF evs = <<>> \/ s.pc = "done" THEN s
    ELSE SinkRun(SinkStep(s, Head(evs)), Tail(evs))

\* ---- SpecUpload: one call of the sink, one awaited event per step ----
SinkCall ==
    /\ sink.pc = "idle"
    /\ \E fn \in SinkFns, max \in 0..MaxBudget : sink' = SinkStart(fn, max)
    /\ UNCHANGED <<frontVars, req, permits, orphans>>

SinkNextField ==
    /\ sink.pc = "next_field"
    /\ \E ev \in FieldEvents :
          /\ ev.t \notin {"end", "field_err"} => sink.nfields < MaxFields
          /\ sink' = SinkStep(sink, ev)
    /\ UNCHANGED <<frontVars, req, permits, orphans>>

SinkNextChunk ==
    /\ sink.pc = "chunk"
    /\ \E ev \in ChunkEvents :
          /\ ev.t = "data" => sink.nchunks < MaxChunks
          /\ sink' = SinkStep(sink, ev)
    /\ UNCHANGED <<frontVars, req, permits, orphans>>



(***************************************************************************)
(* Requests (handlers.rs), Work Admission (state.rs), subprocesses         *)
(* (ghostscript.rs) and quota calls (quota.rs).                            *)
(*                                                                         *)
(* req[r].pc names the await the request is suspended at:                  *)
(*   acquire / acquire_conv   ghostscript_semaphore.acquire()              *)
(*   pdfinfo                  Command::new("pdfinfo").output()             *)
(*   gs_pagecount             run_command("gs", page-count script)         *)
(*   reserve_sub, reserve_act the two backend calls of reserve_units_...   *)
(*   analyze                  run_command("gs", inkcov)                    *)
(*   formfields               tokio::fs::read of the upload                *)
(*   convert                  run_command("gs", pdfwrite gray)             *)
(*   commit / release         the backend action in flight                 *)
(*   read_out                 tokio::fs::read of the output file           *)
(*   rm_temp, rm_temp_only, rm_out   remove_file_if_exists                 *)
(*   health_gs, health_convex the two awaits of the health handler         *)
(*   done                     the handler returned its response            *)
(*   cancelled / panicked     the handler future was dropped / unwound     *)
(* req[r].saved records that the Upload Sink returned Ok; req[r].proc the  *)
(* progress of the processing step (analyze_pdf / convert_pdf_to_...).     *)
(* Both conversion functions are one run_command("gs", ..), so the local   *)
(* `mode` is not kept beyond GrayscaleMode::parse.  When the future is     *)
(* dropped its locals, proc among them, are gone (proc = "dropped").       *)
(***************************************************************************)
Kinds == {"test", "preflight", "grayscale", "health"}

QuotaKinds == {"preflight", "grayscale"}

\* `5 * 1024 * 1024` and `20 * 1024 * 1024`
PreflightUploadLimit == 5 * 1024 * 1024
ApiUploadLimit == 20 * 1024 * 1024

ReqIdle ==
    [kind |-> "none", pc |-> "idle", temp |-> FALSE, out |-> FALSE,
     permit |-> FALSE, child |-> "none", resv |-> "none",
     commits |-> 0, releases |-> 0, proc |-> "notstarted", status |-> 0,
     saved |-> FALSE]

\* multipart bodies a client may send, relative to the byte budget of the route
FilePart == [t |-> "file", pdf |-> TRUE, create_ok |-> TRUE]
Data(n) == [t |-> "data", n |-> n, write_ok |-> TRUE]
Eof == [t |-> "eof", flush_ok |-> TRUE]
ModePart(v) == [t |-> "text", name |-> "mode", ok |-> TRUE, value |-> v]

UploadScripts(max) ==
    {<<FilePart, Data(max - 1), Data(1), Eof, [t |-> "end"]>>,
     <<ModePart("production"), FilePart, Data(1), Eof, [t |-> "end"]>>,
     <<FilePart, Data(1), Eof, ModePart("bogus"), [t |-> "end"]>>,
     <<FilePart, Data(max), Data(1)>>,
     <<[t |-> "end"]>>,
     <<[t |-> "file", pdf |-> FALSE, create_ok |-> TRUE]>>,
     <<FilePart, Data(1), [t |-> "chunk_err"]>>,
     <<FilePart, Data(1), [t |-> "data", n |-> 1, write_ok |-> FALSE]>>,
     <<FilePart, Data(1), Eof, [t |-> "text", name |-> "mode", ok |-> FALSE, value |-> ""]>>}

\* upload_error_to_response
upload_error_to_response(error) ==
    IF error \in {"MissingFile", "UnsupportedFileType", "FileTooLarge"} THEN 400 ELSE 500

\* unwrap_or_default().trim().to_ascii_lowercase() on the spellings that
\* form fields and the backend's records are given in the model; "absent" is
\* None
TrimLower(text) ==
    CASE text = "absent"     -> ""
      [] text = "Pro"        -> "pro"
      [] text = " starter "  -> "starter"
      [] text = " Active "   -> "active"
      [] text = "TRIALING"   -> "trialing"
      [] text = "Production" -> "production"
      [] OTHER               -> text

\* GrayscaleMode::parse on the trimmed field text
GrayscaleMode_parse(raw) ==
    LET normalized == TrimLower(raw) IN
    IF normalized = "" \/ normalized = "preview" THEN "Preview"
    ELSE IF normalized = "production" THEN "Production"
    ELSE "Err"

\* kill_on_drop(true) is set by run_command only
KillOnDrop(child) == child = "gs"

\* timeout(*GHOSTSCRIPT_COMMAND_TIMEOUT, child.wait_with_output()) is in
\* run_command only; pdfinfo and `gs -v` are awaited with output().await
SubjectToTimeout(child) == child = "gs"

CanAcquireAlways(p) == TRUE

\* Semaphore::acquire completes only when a permit is available
CanAcquire(p) == p > 0

PermitsAfterUnwindLeak(held, p) == p

\* the SemaphorePermit is a local of the job future: dropping the future
\* (cancellation) or unwinding through it (panic) returns the permit
PermitsAfterUnwind(held, p) == IF held THEN p + 1 ELSE p

JobReturnKeepsPermit(q) == [q EXCEPT !.child = "none"]

\* `drop(permit)` on the way out of run_ghostscript_job
JobReturn(q) == [q EXCEPT !.permit = FALSE, !.child = "none"]

PermitDelta(q, q2) == IF q.permit /\ ~q2.permit THEN 1 ELSE 0

\* the handler proceeds to its cleanup with the response decided
Cleanup(q, status) == [q EXCEPT !.pc = "rm_temp", !.status = status, !.child = "none"]

ReleaseNotIssued(q) == [q EXCEPT !.pc = "release"]

\* the release action is sent to the backend
release_reservation_for_clerk_user(q) ==
    [q EXCEPT !.pc = "release", !.releases = @ + 1]

\* the commit action is sent to the backend
commit_reservation_for_clerk_user(q) ==
    [q EXCEPT !.pc = "commit", !.commits = @ + 1]

AfterProcessingSwapped(ok) == IF ok THEN "release" ELSE "commit"

\* `Ok(..) => commit`, `Err(..) => release`
AfterProcessing(ok) == IF ok THEN "commit" ELSE "release"

SettleReservation(q, ok) ==
    IF AfterProcessing(ok) = "commit"
    THEN commit_reservation_for_clerk_user(q)
    ELSE release_reservation_for_clerk_user(q)

\* analyze_pdf / convert returned Err (why is "err" or "timeout")
ProcessingFailed(q, why) ==
    LET f == [q EXCEPT !.proc = why, !.child = "none"] IN
    CASE q.kind = "test" -> Cleanup(JobReturn(f), 500)
      [] q.kind = "preflight" -> SettleReservation(f, FALSE)
      [] q.kind = "grayscale" -> SettleReservation(JobReturn(f), FALSE)

\* analyze_pdf: run_command("gs", inkcov) is spawned, or the spawn fails
StartInkcov(q) ==
    {[q EXCEPT !.proc = "running", !.child = "gs", !.pc = "analyze"],
     ProcessingFailed([q EXCEPT !.proc = "running"], "err")}

\* get_pdf_page_count returned Err
PageCountFailed(q) ==
    IF q.kind = "test"
    THEN Cleanup(JobReturn([q EXCEPT !.proc = "err"]), 500)
    ELSE Cleanup(JobReturn(q), 500)

AfterPageCountSkipReserve(q) ==
    IF q.kind = "grayscale"
    THEN {[JobReturn(q) EXCEPT !.pc = "acquire_conv"]}
    ELSE StartInkcov([q EXCEPT !.child = "none"])

\* get_pdf_page_count returned Ok(page_count)
AfterPageCount(q) ==
    CASE q.kind = "test" -> StartInkcov([q EXCEPT !.child = "none"])
      [] q.kind = "preflight" -> {[q EXCEPT !.child = "none", !.pc = "reserve_sub"]}
      [] q.kind = "grayscale" -> {[JobReturn(q) EXCEPT !.pc = "reserve_sub"]}

\* get_pdf_page_count falls back to run_command("gs", ...): spawned, or not
StartGsPageCount(q) ==
    {[q EXCEPT !.child = "gs", !.pc = "gs_pagecount"], PageCountFailed(q)}

\* get_pdf_page_count: pdfinfo is spawned, or the spawn fails and gs is tried
StartPageCount(q) ==
    {[q EXCEPT !.child = "pdfinfo", !.pc = "pdfinfo"]} \cup StartGsPageCount(q)

Set(r, q2) == req' = [req EXCEPT ![r] = q2]

\* what the sink returns for the bodies a client may send
Uploads(fn, max) ==
    {SinkRun(SinkStart(fn, max), evs) : evs \in UploadScripts(max)}

PreflightTestUploads == Uploads("save_pdf_from_multipart", PreflightUploadLimit)

PreflightUploads ==
    PreflightTestUploads \cup Uploads("save_pdf_from_multipart", ApiUploadLimit)

GrayscaleUploads == Uploads("save_pdf_with_mode_from_multipart", ApiUploadLimit)

\* ---- the handlers up to their first admission ----
test_document(r) ==
    /\ req[r].pc = "idle"
    /\ \E s \in PreflightTestUploads :
          LET q == [req[r] EXCEPT !.kind = "test", !.temp = s.onDisk,
                                   !.saved = (s.result = "Ok")] IN
          /\ s.pc = "done"
          /\ IF s.result = "Ok"
             THEN Set(r, [q EXCEPT !.pc = "acquire"])
             ELSE Set(r, [q EXCEPT !.pc = "done", !.status = upload_error_to_response(s.result)])
    /\ UNCHANGED <<frontVars, sink, permits, orphans>>

preflight_for_clerk_user(r) ==
    /\ req[r].pc = "idle"
    /\ \E s \in PreflightUploads :
          LET q == [req[r] EXCEPT !.kind = "preflight", !.temp = s.onDisk,
                                   !.saved = (s.result = "Ok")] IN
          /\ s.pc = "done"
          /\ IF s.result = "Ok"
             THEN Set(r, [q EXCEPT !.pc = "acquire"])
             ELSE Set(r, [q EXCEPT !.pc = "done", !.status = upload_error_to_response(s.result)])
    /\ UNCHANGED <<frontVars, sink, permits, orphans>>

GrayscaleModeUnchecked(q0, s) ==
    LET q == [q0 EXCEPT !.kind = "grayscale", !.temp = s.onDisk,
                        !.saved = (s.result = "Ok")] IN
    IF s.result # "Ok"
    THEN [q EXCEPT !.pc = "done", !.status = upload_error_to_response(s.result)]
    ELSE [q EXCEPT !.pc = "acquire"]

\* grayscale_for_clerk_user from the upload's return to the first await after
\* GrayscaleMode::parse
GrayscaleStart(q0, s) ==
    LET q == [q0 EXCEPT !.kind = "grayscale", !.temp = s.onDisk,
                        !.saved = (s.result = "Ok")]
        mode == GrayscaleMode_parse(s.mode) IN
    IF s.result # "Ok"
    THEN [q EXCEPT !.pc = "done", !.status = upload_error_to_response(s.result)]
    ELSE IF mode = "Err"
    THEN [q EXCEPT !.pc = "rm_temp_only", !.status = 400]
    ELSE [q EXCEPT !.pc = "acquire"]

grayscale_for_clerk_user(r) ==
    /\ req[r].pc = "idle"
    /\ \E s \in GrayscaleUploads :
          /\ s.pc = "done"
          /\ Set(r, GrayscaleStart(req[r], s))
    /\ UNCHANGED <<frontVars, sink, permits, orphans>>

\* the same handler with the upload it received kept in `sink`
GrayscaleUploaded(r) ==
    /\ req[r].pc = "idle"
    /\ sink.pc = "done"
    /\ Set(r, GrayscaleStart(req[r], sink))
    /\ UNCHANGED <<frontVars, sink, permits, orphans>>

health(r) ==
    /\ req[r].pc = "idle"
    /\ \/ Set(r, [req[r] EXCEPT !.kind = "health", !.child = "gsv", !.pc = "health_gs"])
       \/ Set(r, [req[r] EXCEPT !.kind = "health", !.pc = "health_convex"])
    /\ UNCHANGED <<frontVars, sink, permits, orphans>>

HealthGsExit(r) ==
    /\ req[r].pc = "health_gs"
    /\ Set(r, [req[r] EXCEPT !.child = "none", !.pc = "health_convex"])
    /\ UNCHANGED <<frontVars, sink, permits, orphans>>

HealthConvexReturn(r) ==
    /\ req[r].pc = "health_convex"
    /\ \E st \in {200, 500} : Set(r, [req[r] EXCEPT !.pc = "done", !.status = st])
    /\ UNCHANGED <<frontVars, sink, permits, orphans>>

\* ---- run_ghostscript_job: admission ----
Acquire(r) ==
    /\ req[r].pc = "acquire"
    /\ CanAcquire(permits)
    /\ LET q1 == [req[r] EXCEPT !.permit = TRUE,
                                !.proc = IF @ = "notstarted" /\ req[r].kind = "test"
                                         THEN "running" ELSE @] IN
       \E q2 \in StartPageCount(q1) :
          /\ Set(r, q2)
          /\ permits' = (permits - 1) + PermitDelta(q1, q2)
    /\ UNCHANGED <<frontVars, sink, orphans>>

AcquireConv(r) ==
    /\ req[r].pc = "acquire_conv"
    /\ CanAcquire(permits)
    /\ LET q1 == [req[r] EXCEPT !.permit = TRUE, !.proc = "running"] IN
       \E q2 \in {[q1 EXCEPT !.child = "gs", !.pc = "convert"],
                  ProcessingFailed(q1, "err")} :
          /\ Set(r, q2)
          /\ permits' = (permits - 1) + PermitDelta(q1, q2)
    /\ UNCHANGED <<frontVars, sink, orphans>>

\* ---- get_pdf_page_count ----
PdfinfoExit(r) ==
    /\ req[r].pc = "pdfinfo"
    /\ \E q2 \in AfterPageCount(req[r]) \cup StartGsPageCount([req[r] EXCEPT !.child = "none"]) :
          /\ Set(r, q2)
          /\ permits' = permits + PermitDelta(req[r], q2)
    /\ UNCHANGED <<frontVars, sink, orphans>>

GsPageCountExit(r) ==
    /\ req[r].pc = "gs_pagecount"
    /\ \E q2 \in AfterPageCount(req[r]) \cup {PageCountFailed(req[r])} :
          /\ Set(r, q2)
          /\ permits' = permits + PermitDelta(req[r], q2)
    /\ UNCHANGED <<frontVars, sink, orphans>>

\* ---- reserve_units_for_clerk_user ----
ReserveSubscriptionReturn(r) ==
    /\ req[r].pc = "reserve_sub"
    /\ LET q == req[r] IN
       \E q2 \in {[q EXCEPT !.pc = "reserve_act"], Cleanup(JobReturn(q), 500)} :
          /\ Set(r, q2)
          /\ permits' = permits + PermitDelta(q, q2)
    /\ UNCHANGED <<frontVars, sink, orphans>>

QuotaDeniedThenRelease(q) ==
    release_reservation_for_clerk_user(JobReturn([q EXCEPT !.resv = "denied"]))

\* `if !reservation.allowed`: clean up and answer quota_exceeded_response
QuotaDenied(q) == Cleanup(JobReturn([q EXCEPT !.resv = "denied"]), 402)

MissingReservationIdIgnored(q) ==
    IF q.kind = "preflight"
    THEN [q EXCEPT !.resv = "noid", !.proc = "running", !.child = "gs", !.pc = "analyze"]
    ELSE [q EXCEPT !.resv = "noid", !.pc = "acquire_conv"]

\* allowed = true without reservation_id: "Failed to create usage reservation."
MissingReservationId(q) == Cleanup(JobReturn([q EXCEPT !.resv = "noid"]), 500)

ReserveActionReturn(r) ==
    /\ req[r].pc = "reserve_act"
    /\ LET q == req[r]
           held == [q EXCEPT !.resv = "held"] IN
       \E q2 \in {Cleanup(JobReturn(q), 500),
                  QuotaDenied(q),
                  MissingReservationId(q)}
                 \cup (IF q.kind = "preflight" THEN StartInkcov(held)
                       ELSE {[held EXCEPT !.pc = "acquire_conv"]}) :
          /\ Set(r, q2)
          /\ permits' = permits + PermitDelta(q, q2)
    /\ UNCHANGED <<frontVars, sink, orphans>>

\* ---- the processing step ----
AnalyzeExit(r) ==
    /\ req[r].pc = "analyze"
    /\ LET q == req[r] IN
       \E q2 \in {[q EXCEPT !.child = "none", !.pc = "formfields"],
                  ProcessingFailed(q, "err"), ProcessingFailed(q, "timeout")} :
          /\ Set(r, q2)
          /\ permits' = permits + PermitDelta(q, q2)
    /\ UNCHANGED <<frontVars, sink, orphans>>

FormfieldsRead(r) ==
    /\ req[r].pc = "formfields"
    /\ LET q == [req[r] EXCEPT !.proc = "ok"]
           q2 == IF q.kind = "test" THEN Cleanup(JobReturn(q), 200)
                 ELSE SettleReservation(q, TRUE) IN
       /\ Set(r, q2)
       /\ permits' = permits + PermitDelta(req[r], q2)
    /\ UNCHANGED <<frontVars, sink, orphans>>

ConvertExit(r) ==
    /\ req[r].pc = "convert"
    /\ LET q == req[r] IN
       \E q2 \in {SettleReservation(JobReturn([q EXCEPT !.proc = "ok", !.out = TRUE]), TRUE)}
                 \cup {ProcessingFailed([q EXCEPT !.out = o], why) :
                          o \in BOOLEAN, why \in {"err", "timeout"}} :
          /\ Set(r, q2)
          /\ permits' = permits + PermitDelta(q, q2)
    /\ UNCHANGED <<frontVars, sink, orphans>>

\* ---- commit / release return ----
CommitReturn(r) ==
    /\ req[r].pc = "commit"
    /\ LET q == req[r] IN
       \E q2 \in (IF q.kind = "preflight"
                  THEN {Cleanup(JobReturn(q), 200), Cleanup(JobReturn(q), 500)}
                  ELSE {[q EXCEPT !.pc = "read_out"]}) :
          /\ Set(r, q2)
          /\ permits' = permits + PermitDelta(q, q2)
    /\ UNCHANGED <<frontVars, sink, orphans>>

ReleaseReturn(r) ==
    /\ req[r].pc = "release"
    /\ LET q == req[r]
           q2 == Cleanup(JobReturn(q), 500) IN
       /\ Set(r, q2)
       /\ permits' = permits + PermitDelta(q, q2)
    /\ UNCHANGED <<frontVars, sink, orphans>>

ReadOutput(r) ==
    /\ req[r].pc = "read_out"
    /\ \E st \in (IF req[r].out THEN {200, 500} ELSE {500}) :
          Set(r, Cleanup(req[r], st))
    /\ UNCHANGED <<frontVars, sink, permits, orphans>>

\* ---- remove_file_if_exists ----
RemoveTemp(r) ==
    /\ req[r].pc \in {"rm_temp", "rm_temp_only"}
    /\ Set(r, [req[r] EXCEPT !.temp = FALSE,
                             !.pc = IF req[r].kind = "grayscale" /\ @ = "rm_temp"
                                    THEN "rm_out" ELSE "done"])
    /\ UNCHANGED <<frontVars, sink, permits, orphans>>

RemoveOutput(r) ==
    /\ req[r].pc = "rm_out"
    /\ Set(r, [req[r] EXCEPT !.out = FALSE, !.pc = "done"])
    /\ UNCHANGED <<frontVars, sink, permits, orphans>>

\* ---- exits that run no handler code ----
Suspended(q) == q.pc \notin {"idle", "done", "cancelled", "panicked"}

InsideJob(q) == q.permit

\* the locals of the handler future are gone; files on disk and calls already
\* sent to the backend stay as they are
Dropped(q, pc) ==
    [q EXCEPT !.pc = pc, !.permit = FALSE, !.child = "none", !.proc = "dropped",
              !.status = 0]

Orphaned(q) == IF q.child # "none" /\ ~KillOnDrop(q.child) THEN 1 ELSE 0

\* the client disconnected and the transport dropped the handler future
Cancel(r) ==
    /\ Suspended(req[r])
    /\ Set(r, Dropped(req[r], "cancelled"))
    /\ permits' = PermitsAfterUnwind(req[r].permit, permits)
    /\ orphans' = orphans + Orphaned(req[r])
    /\ UNCHANGED <<frontVars, sink>>

\* the job's task panicked: the stack unwinds through run_ghostscript_job and
\* the handler
Panic(r) ==
    /\ Suspended(req[r])
    /\ InsideJob(req[r])
    /\ Set(r, Dropped(req[r], "panicked"))
    /\ permits' = PermitsAfterUnwind(req[r].permit, permits)
    /\ orphans' = orphans + Orphaned(req[r])
    /\ UNCHANGED <<frontVars, sink>>

\* a child that outlived its request exits by itself
OrphanExit ==
    /\ orphans > 0
    /\ orphans' = orphans - 1
    /\ UNCHANGED <<frontVars, sink, req, permits>>

InitPipeline ==
    /\ sink = SinkIdle
    /\ req = [r \in Reqs |-> ReqIdle]
    /\ permits = ghostscript_concurrency
    /\ orphans = 0

(***************************************************************************)
(* Rate Limiter (rate_limit.rs).  One InMemoryRateLimiter and NumCallers   *)
(* threads calling check_and_count.  A call is two steps: Instant::now()   *)
(* is read before the mutex is taken, everything from buckets.lock() to    *)
(* the return runs inside the critical section.                            *)
(***************************************************************************)
Callers == 1..NumCallers

\* the bucket key the callers contend for (calls for different keys touch
\* different buckets)
Keys == {"198.51.100.7"}

\* Instants are ticks of the monotonic clock; the model starts one window
\* after the clock's origin
BootClock == window
MaxClock == BootClock + MaxTicks
Instants == BootClock..MaxClock

CallerIdle == [pc |-> "idle", key |-> "198.51.100.7", now |-> BootClock, ret |-> "none"]

\* now.checked_sub(self.window).unwrap_or(now)
Cutoff(now) == IF now >= window THEN now - window ELSE now

\* while let Some(front) = bucket.front() { if front < cutoff { pop_front } else { break } }
RECURSIVE TrimFront(_, _)
TrimFront(bucket, cutoff) ==
    IF bucket # <<>> /\ Head(bucket) < cutoff
    THEN TrimFront(Tail(bucket), cutoff)
    ELSE bucket

BucketFullOffByOne(bucket) == Len(bucket) > max_requests

BucketFull(bucket) == Len(bucket) >= max_requests

\* the critical section of check_and_count for one bucket
check_and_count(bucket, now) ==
    LET trimmed == TrimFront(bucket, Cutoff(now))
    IN  IF BucketFull(trimmed)
        THEN [ret |-> FALSE, bucket |-> trimmed]
        ELSE [ret |-> TRUE, bucket |-> Append(trimmed, now)]

\* let now = Instant::now();
InstantNow(c) ==
    /\ caller[c].pc = "idle"
    /\ \E k \in Keys :
          caller' = [caller EXCEPT ![c] =
                        [pc |-> "lock", key |-> k, now |-> clock, ret |-> "none"]]
    /\ UNCHANGED <<pipelineVars, routerVars, jwksVars, webhookVars, toolVars, clock, buckets, admitted>>

\* self.buckets.lock() ... return
LockBuckets(c) ==
    /\ caller[c].pc = "lock"
    /\ LET k == caller[c].key
           now == caller[c].now
           res == check_and_count(buckets[k], now)
       IN  /\ buckets' = [buckets EXCEPT ![k] = res.bucket]
           /\ admitted' = IF res.ret
                           THEN [admitted EXCEPT ![k][now] = @ + 1]
                           ELSE admitted
           /\ caller' = [caller EXCEPT ![c] =
                            [CallerIdle EXCEPT !.ret = IF res.ret THEN "true" ELSE "false"]]
    /\ UNCHANGED <<pipelineVars, routerVars, jwksVars, webhookVars, toolVars, clock>>

\* the monotonic clock advances
Tick ==
    /\ clock < MaxClock
    /\ clock' = clock + 1
    /\ UNCHANGED <<pipelineVars, routerVars, jwksVars, webhookVars, toolVars, buckets, caller, admitted>>

InitLimiter ==
    /\ clock = BootClock
    /\ buckets = [k \in Keys |-> <<>>]
    /\ caller = [c \in Callers |-> CallerIdle]
    /\ admitted = [k \in Keys |-> [t \in Instants |-> 0]]

(***************************************************************************)
(* Router and middleware (main.rs build_router, middleware.rs, auth.rs).   *)
(* A request passes the layers of its route, outermost first, one step per  *)
(* middleware, then the handler.  Requests are taken one after the other:  *)
(* the middleware of different requests share nothing but the limiter      *)
(* buckets, whose interleavings SpecLimiter covers, and the clock stands    *)
(* still here.                                                             *)
(***************************************************************************)
Conns == {"conn"}

Sources == {"198.51.100.7", "203.0.113.9"}

Limiters == {"preflight_test_limiter", "api_limiter"}

\* route -> the router of build_router that registers it
RouterOf ==
    [p \in {"/api/stripe/webhook"} |-> "top"] @@
    [p \in {"/process/preflight-test"} |-> "process_public_router"] @@
    [p \in {"/process/preflight", "/process/grayscale"} |-> "process_private_router"] @@
    [p \in {"/api/keys"} |-> "api_key_router"] @@
    [p \in {"/api/subscription"} |-> "subscription_router"] @@
    [p \in {"/api/stripe/create-checkout-session"} |-> "stripe_router"] @@
    [p \in {"/api/usage"} |-> "usage_router"] @@
    [p \in {"/api/process/analyze"} |-> "api_process_router"]

Paths == DOMAIN RouterOf

\* the route_layer of the router that registers the route
RouteLayers(path) ==
    CASE RouterOf[path] = "process_public_router" -> <<"preflight_test_rate_limit">>
      [] RouterOf[path] \in {"process_private_router", "api_key_router",
                             "subscription_router", "stripe_router"}
                                                  -> <<"require_auth_and_sync">>
      [] RouterOf[path] = "usage_router"          -> <<"require_auth">>
      [] RouterOf[path] = "api_process_router"    -> <<"api_key_auth">>
      [] OTHER                                    -> <<>>

\* the routers nested into api_router
ApiNested == {"api_key_router", "subscription_router", "stripe_router",
              "usage_router", "api_process_router"}

ApiLayersEverywhere(path) == <<"api_rate_limit">>

\* the route_layer of api_router, applied to the routes nested into it
ApiLayers(path) ==
    IF RouterOf[path] \in ApiNested THEN <<"api_rate_limit">> ELSE <<>>

LayersInnerFirst(path) == RouteLayers(path) \o ApiLayers(path)

\* the middleware a request to the route passes, outermost first: a layer
\* added later wraps the layers added before it
Layers(path) == ApiLayers(path) \o RouteLayers(path)

\* statuses the handlers of a route answer with
HandlerStatuses(path) ==
    CASE path = "/api/stripe/webhook"     -> {200, 400, 500}
      [] path = "/process/preflight-test" -> {200, 400, 500}
      [] path \in {"/process/preflight", "/process/grayscale",
                   "/api/process/analyze"} -> {200, 400, 402, 500}
      [] path = "/api/keys"               -> {200, 201, 400, 500}
      [] path = "/api/stripe/create-checkout-session" -> {200, 400, 404, 500}
      [] OTHER                            -> {200, 500}

HttpIdle ==
    [pc |-> "idle", path |-> "/api/usage", src |-> "198.51.100.7", layer |-> 0,
     status |-> 0, limited |-> "no", verified |-> FALSE, convex |-> "none",
     user |-> "none", handler |-> FALSE, authErr |-> "none"]

\* Authorization header values: absent, not UTF-8, another scheme, a bearer
\* scheme without token, a bearer token
AuthorizationHeaders == {"absent", "opaque", "Basic dXNlcg==", "Bearer ", "bearer jwt"}

\* extract_bearer_token, after headers().get(AUTHORIZATION).to_str().ok()
extract_bearer_token(header) ==
    CASE header \in {"absent", "opaque"} -> "missing Authorization header"
      [] header = "bearer jwt"           -> "token"
      [] OTHER                           -> "Invalid Authorization header format"

\* what verify_token finds in the token, the configuration, the JWKS of the
\* issuer and the signature validation of the jsonwebtoken library
GoodToken ==
    [header_ok |-> TRUE, kid |-> TRUE, payload_ok |-> TRUE, iss |-> "expected",
     expected_issuer |-> TRUE, jwks |-> "ok", jwk_found |-> TRUE, kty |-> "RSA",
     alg |-> "RS256", n |-> TRUE, e |-> TRUE, key_ok |-> TRUE, decode |-> "ok"]

Tokens ==
    {GoodToken,
     [GoodToken EXCEPT !.alg = "absent"],
     [GoodToken EXCEPT !.expected_issuer = FALSE, !.iss = "other"],
     [GoodToken EXCEPT !.header_ok = FALSE],
     [GoodToken EXCEPT !.kid = FALSE],
     [GoodToken EXCEPT !.payload_ok = FALSE],
     [GoodToken EXCEPT !.iss = "absent"],
     [GoodToken EXCEPT !.iss = "other"],
     [GoodToken EXCEPT !.jwks = "fetch_failed"],
     [GoodToken EXCEPT !.jwks = "http_error"],
     [GoodToken EXCEPT !.jwks = "invalid_json"],
     [GoodToken EXCEPT !.jwk_found = FALSE],
     [GoodToken EXCEPT !.kty = "EC"],
     [GoodToken EXCEPT !.alg = "ES256"],
     [GoodToken EXCEPT !.n = FALSE],
     [GoodToken EXCEPT !.e = FALSE],
     [GoodToken EXCEPT !.key_ok = FALSE],
     [GoodToken EXCEPT !.decode = "InvalidSignature"],
     [GoodToken EXCEPT !.decode = "ExpiredSignature"],
     [GoodToken EXCEPT !.decode = "ImmatureSignature"],
     [GoodToken EXCEPT !.decode = "InvalidIssuer"]}

\* AuthService::verify_token: "none" for Ok(claims), the error otherwise
verify_token(t) ==
    CASE ~t.header_ok        -> "invalid JWT header"
      [] ~t.kid              -> "JWT header missing kid"
      [] ~t.payload_ok       -> "failed to parse unverified JWT claims"
      [] t.iss = "absent"    -> "JWT missing iss claim"
      [] t.expected_issuer /\ t.iss # "expected" -> "JWT issuer mismatch"
      [] t.jwks # "ok"       -> "failed to fetch JWKS"
      [] ~t.jwk_found        -> "No matching JWK found for kid"
      [] t.kty # "RSA"       -> "Unsupported JWK type"
      [] t.alg \notin {"absent", "RS256"} -> "Unsupported JWK alg"
      [] ~t.n                -> "JWK missing modulus (n)"
      [] ~t.e                -> "JWK missing exponent (e)"
      [] ~t.key_ok           -> "failed to build RSA decoding key"
      [] t.decode # "ok"     -> "JWT signature validation failed"
      [] OTHER               -> "none"

\* AuthService::verify_bearer_token on the header of the request
verify_bearer_token(header, t) ==
    IF extract_bearer_token(header) = "token"
    THEN verify_token(t)
    ELSE extract_bearer_token(header)

\* next.run(request): the next layer of the route, or its handler
NextRun(q) ==
    IF q.layer < Len(Layers(q.path))
    THEN [q EXCEPT !.pc = "layer", !.layer = @ + 1]
    ELSE [q EXCEPT !.pc = "handler"]

Respond(q, status) == [q EXCEPT !.pc = "done", !.status = status]

AtLayer(c, name) ==
    /\ http[c].pc = "layer"
    /\ Layers(http[c].path)[http[c].layer] = name

\* a request arrives on the connection
HttpRequest(c) ==
    /\ http[c].pc = "idle"
    /\ \E path \in Paths, src \in Sources :
          http' = [http EXCEPT ![c] =
                      NextRun([HttpIdle EXCEPT !.path = path, !.src = src])]
    /\ UNCHANGED <<pipelineVars, limiterVars, jwksVars, webhookVars, toolVars, limiters>>

\* both rate-limit middleware: client_identity, check_and_count, 429 or next
RateLimit(c, limiter) ==
    LET q == http[c]
        res == check_and_count(limiters[limiter][q.src], clock)
    IN  /\ limiters' = [limiters EXCEPT ![limiter][q.src] = res.bucket]
        /\ http' = [http EXCEPT ![c] =
                      IF res.ret
                      THEN NextRun([q EXCEPT !.limited = "passed"])
                      ELSE Respond([q EXCEPT !.limited = "rejected"], 429)]
        /\ UNCHANGED <<pipelineVars, limiterVars, jwksVars, webhookVars, toolVars>>

preflight_test_rate_limit(c) ==
    /\ AtLayer(c, "preflight_test_rate_limit")
    /\ RateLimit(c, "preflight_test_limiter")

api_rate_limit(c) ==
    /\ AtLayer(c, "api_rate_limit")
    /\ RateLimit(c, "api_limiter")

AuthFailurePassThrough(q, error) == NextRun([q EXCEPT !.authErr = error])

\* the Err arm of the bearer middleware: warn and answer 401
AuthFailure(q, error) == Respond([q EXCEPT !.authErr = error], 401)

\* the bearer check both auth middleware start with
BearerGate(q, header, t) ==
    IF header \in {"absent", "opaque"}
    THEN AuthFailure(q, extract_bearer_token(header))
    ELSE LET error == verify_bearer_token(header, t)
             v == [q EXCEPT !.verified = TRUE]
         IN  IF error # "none"
             THEN AuthFailure(v, error)
             ELSE [v EXCEPT !.user = "AuthenticatedUser"]

require_auth(c) ==
    /\ AtLayer(c, "require_auth")
    /\ \E header \in AuthorizationHeaders, t \in Tokens :
          LET g == BearerGate(http[c], header, t)
          IN  http' = [http EXCEPT ![c] =
                          IF g.user = "AuthenticatedUser" THEN NextRun(g) ELSE g]
    /\ UNCHANGED <<pipelineVars, limiterVars, jwksVars, webhookVars, toolVars, limiters>>

\* as require_auth, with the user sync between verification and next.run:
\* its failures are logged and do not fail the request
require_auth_and_sync(c) ==
    /\ AtLayer(c, "require_auth_and_sync")
    /\ \E header \in AuthorizationHeaders, t \in Tokens,
          sync \in {"no clerk_secret_key", "no primary email", "clerk error",
                    "users:sync ok", "users:sync failed"} :
          LET g == BearerGate(http[c], header, t)
              synced == [g EXCEPT !.convex =
                            IF sync \in {"users:sync ok", "users:sync failed"}
                            THEN "users:sync" ELSE @]
          IN  http' = [http EXCEPT ![c] =
                          IF g.user = "AuthenticatedUser" THEN NextRun(synced) ELSE g]
    /\ UNCHANGED <<pipelineVars, limiterVars, jwksVars, webhookVars, toolVars, limiters>>

api_key_auth(c) ==
    /\ AtLayer(c, "api_key_auth")
    /\ \E key \in {"absent", "blank", "present"},
          answer \in {"error", "null", "undecodable", "user"} :
          LET q == http[c]
              called == [q EXCEPT !.convex = "apiKeys:authenticateAndTrackUsage"]
          IN  http' = [http EXCEPT ![c] =
                 CASE key # "present"          -> Respond(q, 401)
                   [] answer = "error"         -> Respond(called, 500)
                   [] answer = "null"          -> Respond(called, 401)
                   [] answer = "undecodable"   -> Respond(called, 500)
                   [] OTHER -> NextRun([called EXCEPT !.user = "ConvexUser"])]
    /\ UNCHANGED <<pipelineVars, limiterVars, jwksVars, webhookVars, toolVars, limiters>>

\* the handler of the route runs and answers
RouteHandler(c) ==
    /\ http[c].pc = "handler"
    /\ \E status \in HandlerStatuses(http[c].path) :
          http' = [http EXCEPT ![c] =
                      Respond([http[c] EXCEPT !.handler = TRUE], status)]
    /\ UNCHANGED <<pipelineVars, limiterVars, jwksVars, webhookVars, toolVars, limiters>>

\* the response is written; the connection takes the next request
HttpResponse(c) ==
    /\ http[c].pc = "done"
    /\ http' = [http EXCEPT ![c] = HttpIdle]
    /\ UNCHANGED <<pipelineVars, limiterVars, jwksVars, webhookVars, toolVars, limiters>>

InitRouter ==
    /\ http = [c \in Conns |-> HttpIdle]
    /\ limiters = [l \in Limiters |-> [k \in Sources |-> <<>>]]

NextRouter ==
    \/ \E c \in Conns :
          \/ HttpRequest(c)
          \/ preflight_test_rate_limit(c)
          \/ api_rate_limit(c)
          \/ require_auth(c)
          \/ require_auth_and_sync(c)
          \/ api_key_auth(c)
          \/ RouteHandler(c)
          \/ HttpResponse(c)

(***************************************************************************)
(* JWKS cache (auth.rs get_jwks).  NumVerifiers concurrent verifications,  *)
(* one step per await of get_jwks: the read lock, the GET, the body, the   *)
(* write lock.                                                             *)
(***************************************************************************)
Verifiers == 1..NumVerifiers

Issuers == {"https://clerk.example"}

\* fetched_at of an issuer without cache entry
NoEntry == -1

VerifierIdle == [pc |-> "idle", issuer |-> "https://clerk.example"]

\* cached.fetched_at.elapsed() < self.jwks_ttl
Fresh(fetched_at, now) == fetched_at # NoEntry /\ now - fetched_at < jwks_ttl

\* a verification reaches get_jwks
GetJwks(v) ==
    /\ verifier[v].pc = "idle"
    /\ \E i \in Issuers :
          verifier' = [verifier EXCEPT ![v] = [pc |-> "read", issuer |-> i]]
    /\ UNCHANGED <<pipelineVars, limiterVars, routerVars, webhookVars, toolVars, jwks_cache, jwks_log>>

\* the read lock: a fresh entry is returned, otherwise the GET is sent
ReadCache(v) ==
    /\ verifier[v].pc = "read"
    /\ verifier' = [verifier EXCEPT ![v] =
                      IF Fresh(jwks_cache[@.issuer], clock)
                      THEN VerifierIdle
                      ELSE [@ EXCEPT !.pc = "send"]]
    /\ UNCHANGED <<pipelineVars, limiterVars, routerVars, webhookVars, toolVars, jwks_cache, jwks_log>>

\* self.http.get(&jwks_url).send().await and the status check
SendReturn(v) ==
    /\ verifier[v].pc = "send"
    /\ \E outcome \in {"transport error", "http error", "success"} :
          verifier' = [verifier EXCEPT ![v] =
                          IF outcome = "success" THEN [@ EXCEPT !.pc = "json"]
                          ELSE VerifierIdle]
    /\ UNCHANGED <<pipelineVars, limiterVars, routerVars, webhookVars, toolVars, jwks_cache, jwks_log>>

\* response.json().await: the key set has been fetched, or the body is invalid
JsonReturn(v) ==
    /\ verifier[v].pc = "json"
    /\ \/ /\ verifier' = [verifier EXCEPT ![v].pc = "write"]
          /\ jwks_log' = [jwks_log EXCEPT ![verifier[v].issuer].fetches = @ + 1]
       \/ /\ verifier' = [verifier EXCEPT ![v] = VerifierIdle]
          /\ UNCHANGED jwks_log
    /\ UNCHANGED <<pipelineVars, limiterVars, routerVars, webhookVars, toolVars, jwks_cache>>

\* the write lock: cache.insert(issuer, CachedJwks { keys, fetched_at: now })
WriteCache(v) ==
    /\ verifier[v].pc = "write"
    /\ jwks_cache' = [jwks_cache EXCEPT ![verifier[v].issuer] = clock]
    /\ verifier' = [verifier EXCEPT ![v] = VerifierIdle]
    /\ UNCHANGED <<pipelineVars, limiterVars, routerVars, webhookVars, toolVars, jwks_log>>

\* the clock advances; an entry that stops being fresh opens a TTL boundary
TtlTick ==
    /\ clock < MaxClock
    /\ clock' = clock + 1
    /\ jwks_log' = [i \in Issuers |->
                      IF Fresh(jwks_cache[i], clock) /\ ~Fresh(jwks_cache[i], clock + 1)
                      THEN [jwks_log[i] EXCEPT !.boundaries = @ + 1]
                      ELSE jwks_log[i]]
    /\ UNCHANGED <<pipelineVars, routerVars, webhookVars, toolVars, buckets, caller,
                   admitted, jwks_cache, verifier>>

\* the cache starts empty: the cold miss is the first boundary
InitJwks ==
    /\ jwks_cache = [i \in Issuers |-> NoEntry]
    /\ verifier = [v \in Verifiers |-> VerifierIdle]
    /\ jwks_log = [i \in Issuers |-> [fetches |-> 0, boundaries |-> 1]]

NextJwks ==
    \/ \E v \in Verifiers :
          \/ GetJwks(v)
          \/ ReadCache(v)
          \/ SendReturn(v)
          \/ JsonReturn(v)
          \/ WriteCache(v)
    \/ TtlTick

(***************************************************************************)
(* Webhook signature verification (stripe_api.rs).  The i64 of the code is *)
(* an integer of IntBits bits: a subtraction or abs() that leaves the      *)
(* range panics in a build with overflow checks and wraps in one without.  *)
(***************************************************************************)
MinInt == -(2 ^ (IntBits - 1))
MaxInt == 2 ^ (IntBits - 1) - 1

\* two's complement wrap-around
Wrap(x) == ((x - MinInt) % (2 ^ IntBits)) + MinInt

ToleranceSecs == 300

\* Utc::now().timestamp()
NowValues == {0, 500}

\* what the call is given: the configuration, the parsed parts of the
\* stripe-signature header (has_t is FALSE when t is absent or not an i64),
\* the payload, the clock and the build profile
SignatureInputs ==
    {in \in [secret : BOOLEAN,
             has_t : BOOLEAN,
             t : MinInt..MaxInt,
             v1 : {"none", "mismatch", "match"},
             utf8 : BOOLEAN,
             now : NowValues,
             overflow_checks : BOOLEAN] : in.has_t \/ in.t = 0}

Abs(x) == IF x < 0 THEN -x ELSE x

\* `(now - timestamp).abs() > 300` on the value abs() returned
OutsideTolerance(age) == age > ToleranceSecs

\* the freshness check of line 63
FreshnessCheck(in) ==
    LET diff == in.now - in.t
        wrapped == Wrap(diff)
    IN  IF in.overflow_checks /\ (diff # wrapped \/ wrapped = MinInt)
        THEN "panic"
        ELSE IF OutsideTolerance(IF wrapped = MinInt THEN MinInt ELSE Abs(wrapped))
             THEN "stale"
             ELSE "fresh"

verify_webhook_signature(in) ==
    CASE ~in.secret     -> "STRIPE_WEBHOOK_SECRET is not configured."
      [] ~in.has_t      -> "Missing Stripe timestamp in signature."
      [] in.v1 = "none" -> "Missing Stripe v1 signature."
      [] OTHER ->
           LET stale == FreshnessCheck(in)
           IN  CASE stale = "panic"   -> "panic"
                 [] stale = "stale"   -> "Stripe signature timestamp outside tolerance."
                 [] ~in.utf8          -> "invalid UTF-8 payload for Stripe signature"
                 [] in.v1 # "match"   -> "Invalid Stripe signature."
                 [] OTHER             -> "Ok"

WebhookIdle ==
    [pc |-> "idle", result |-> "none",
     in |-> [secret |-> TRUE, has_t |-> FALSE, t |-> 0, v1 |-> "none",
             utf8 |-> TRUE, now |-> 0, overflow_checks |-> FALSE]]

\* a request to POST /api/stripe/webhook before it arrives
HookIdle ==
    [pc |-> "idle", status |-> 0, has_header |-> FALSE, header |-> <<>>,
     secret |-> TRUE, overflow_checks |-> FALSE, now |-> 0, body |-> "event",
     verify |-> "none", type |-> "none", items |-> <<>>, existing |-> "unknown",
     action |-> "none", plan |-> "none", outcome |-> "none"]

\* handle_stripe_webhook calls verify_webhook_signature(signature, &body)
VerifySignature ==
    /\ webhook.pc = "call"
    /\ webhook' = [webhook EXCEPT !.pc = "returned",
                                  !.result = verify_webhook_signature(webhook.in)]
    /\ UNCHANGED <<pipelineVars, limiterVars, routerVars, jwksVars, toolVars, hook>>

InitWebhook == webhook = WebhookIdle /\ hook = HookIdle

CalcIdle == [pc |-> "idle", fn |-> "none"]

InitTools == calc = CalcIdle

InitSignature ==
    /\ InitPipeline /\ InitLimiter /\ InitRouter /\ InitJwks /\ InitTools
    /\ webhook \in [pc : {"call"}, result : {"none"}, in : SignatureInputs]
    /\ hook = HookIdle

SpecSignature == InitSignature /\ [][VerifySignature]_vars

(***************************************************************************)
(* The webhook endpoint (handlers.rs: handle_stripe_webhook,               *)
(* sync_subscription_from_stripe).  A stripe-signature header is the       *)
(* sequence of its comma-separated parts.  A timestamp is named by where   *)
(* it lies relative to the clock and a v1 digest by the timestamp its      *)
(* sender signed (HMAC-SHA256 taken as collision free), so a digest        *)
(* equals the expected one iff it names the timestamp the parser kept.     *)
(***************************************************************************)
TimestampTags == {"now", "old", "far"}

TimestampOf(tag, now) ==
    CASE tag = "now" -> now
      [] tag = "old" -> now - (ToleranceSecs + 1)
      [] tag = "far" -> now - 2 ^ (IntBits - 1)

HeaderParts ==
    {[key |-> "t", value |-> v] : v \in TimestampTags \cup {"junk"}}
    \cup {[key |-> "v1", value |-> v] : v \in {"now", "far", "tampered"}}
    \cup {[key |-> "x", value |-> ""]}

SeqsUpTo(S, n) == UNION {[1..k -> S] : k \in 0..n}

\* for part in signature_header.split(',') { ... }
RECURSIVE ParseSignatureHeader(_, _)
ParseSignatureHeader(parts, acc) ==
    IF parts = <<>> THEN acc
    ELSE LET part == Head(parts)
             next == CASE part.key = "t" ->
                            [acc EXCEPT !.timestamp =
                                IF part.value = "junk" THEN "none" ELSE part.value]
                       [] part.key = "v1" ->
                            [acc EXCEPT !.v1_signatures = Append(@, part.value)]
                       [] OTHER -> acc
         IN  ParseSignatureHeader(Tail(parts), next)

\* what verify_webhook_signature works on for the request h
SignatureInput(h) ==
    LET parsed == ParseSignatureHeader(h.header, [timestamp |-> "none", v1_signatures |-> <<>>])
        v1s == parsed.v1_signatures
    IN  [secret |-> h.secret,
         has_t |-> parsed.timestamp # "none",
         t |-> IF parsed.timestamp = "none" THEN 0 ELSE TimestampOf(parsed.timestamp, h.now),
         v1 |-> IF v1s = <<>> THEN "none"
                ELSE IF \E i \in 1..Len(v1s) : v1s[i] = parsed.timestamp
                     THEN "match" ELSE "mismatch",
         utf8 |-> h.body # "binary",
         now |-> h.now,
         overflow_checks |-> h.overflow_checks]

SubscriptionEvents ==
    {"customer.subscription.created", "customer.subscription.updated",
     "customer.subscription.deleted"}

InvoiceEvents == {"invoice.payment_failed", "invoice.payment_succeeded"}

Prices == {"no_price", "price_starter", "price_pro", "price_unmapped"}

\* PriceMap::from_config for STRIPE_PRICE_ID_STARTER = price_starter and
\* STRIPE_PRICE_ID_PRO = price_pro
PriceMap == [p \in {"price_starter", "price_pro"} |->
                IF p = "price_starter" THEN "starter" ELSE "pro"]

get_plan_for_price_id(price_id) ==
    IF price_id \in DOMAIN PriceMap THEN PriceMap[price_id] ELSE "none"

\* the plan field of the backend's subscription record: absent, a plan name in
\* another case, an unknown name
StoredPlans == {"absent", "Pro", "business", "gold"}

resolve_plan_id(plan) ==
    LET name == TrimLower(plan) IN
    CASE name = "starter"    -> "starter"
      [] name = "pro"        -> "pro"
      [] name = "business"   -> "business"
      [] name = "enterprise" -> "enterprise"
      [] OTHER               -> "free"

LastPrice(items) == IF items = <<>> THEN "no_price" ELSE items[Len(items)]

\* subscription.items.data.first().and_then(price).and_then(id)
FirstPrice(items) == IF items = <<>> THEN "no_price" ELSE Head(items)

\* the requests the endpoint may receive, with the configuration and the
\* build profile of the server that receives them
HookRequests ==
    {[HookIdle EXCEPT !.pc = "recv", !.has_header = hh, !.header = hd, !.secret = s,
                      !.overflow_checks = oc, !.now = n, !.body = b] :
        hh \in {TRUE}, hd \in SeqsUpTo(HeaderParts, MaxParts) \ {<<>>}, s \in BOOLEAN,
        oc \in BOOLEAN, n \in NowValues, b \in {"event", "text", "binary"}}
    \cup
    {[HookIdle EXCEPT !.pc = "recv", !.secret = s, !.overflow_checks = oc,
                      !.now = n, !.body = b] :
        s \in BOOLEAN, oc \in BOOLEAN, n \in NowValues,
        b \in {"event", "text", "binary"}}

HookAnswer(h, st, why) == [h EXCEPT !.pc = "done", !.status = st, !.outcome = why]

\* the error arm of `if let Err(error) = ...verify_webhook_signature(...)`
SignatureRejected(h, message) ==
    IF message = "STRIPE_WEBHOOK_SECRET is not configured."
    THEN HookAnswer([h EXCEPT !.verify = message], 500, "rejected")
    ELSE HookAnswer([h EXCEPT !.verify = message], 400, "rejected")

ItemLists == SeqsUpTo(Prices, MaxItems)

\* `match event.event_type.as_str()` up to the first await of each arm
Dispatch(h) ==
    {HookAnswer([h EXCEPT !.type = "charge.succeeded"], 200, "noop")}
    \cup {HookAnswer([h EXCEPT !.type = ty], 500, "decode_failed") :
             ty \in SubscriptionEvents \cup InvoiceEvents}
    \cup {[h EXCEPT !.type = ty, !.items = it, !.pc = "retrieve_customer"] :
             ty \in SubscriptionEvents, it \in ItemLists}
    \cup {HookAnswer([h EXCEPT !.type = ty], 200, "no_subscription") : ty \in InvoiceEvents}
    \cup {[h EXCEPT !.type = ty, !.pc = "retrieve_subscription"] : ty \in InvoiceEvents}

\* handle_stripe_webhook from its entry to its first await or its return
handle_stripe_webhook ==
    /\ hook.pc = "recv"
    /\ IF ~hook.has_header
       THEN hook' = HookAnswer(hook, 400, "rejected")
       ELSE LET result == verify_webhook_signature(SignatureInput(hook))
                h == [hook EXCEPT !.verify = result] IN
            CASE result = "panic" -> hook' = [h EXCEPT !.pc = "panicked"]
              [] result # "Ok"    -> hook' = SignatureRejected(hook, result)
              [] hook.body # "event" -> hook' = HookAnswer(h, 400, "rejected")
              [] OTHER -> hook' \in Dispatch(h)
    /\ UNCHANGED <<pipelineVars, limiterVars, routerVars, jwksVars, toolVars, webhook>>

\* state.stripe.retrieve_subscription(&subscription_id).await
RetrieveSubscriptionReturn ==
    /\ hook.pc = "retrieve_subscription"
    /\ hook' \in {HookAnswer(hook, 500, "call_failed")}
                 \cup {[hook EXCEPT !.items = it, !.pc = "retrieve_customer"] :
                          it \in ItemLists}
    /\ UNCHANGED <<pipelineVars, limiterVars, routerVars, jwksVars, toolVars, webhook>>

\* get_clerk_id_for_customer(state, &customer_id).await
get_clerk_id_for_customer ==
    /\ hook.pc = "retrieve_customer"
    /\ hook' \in {HookAnswer(hook, 500, "call_failed"),
                  HookAnswer(hook, 200, "no_clerk"),
                  [hook EXCEPT !.pc = "subscriptions_get"]}
    /\ UNCHANGED <<pipelineVars, limiterVars, routerVars, jwksVars, toolVars, webhook>>

\* `match (plan_from_price, existing_subscription.as_ref())`
ResolvePlan(plan_from_price, existing) ==
    CASE plan_from_price # "none" -> plan_from_price
      [] existing # "none"        -> resolve_plan_id(existing)
      [] OTHER                    -> "none"

\* sync_subscription_from_stripe from the return of subscriptions:get to the
\* call of the backend action
SubscriptionsGetReturn ==
    /\ hook.pc = "subscriptions_get"
    /\ \/ hook' = HookAnswer(hook, 500, "call_failed")
       \/ \E existing \in {"none"} \cup StoredPlans :
             LET plan_id == ResolvePlan(get_plan_for_price_id(FirstPrice(hook.items)),
                                        existing)
                 h == [hook EXCEPT !.existing = existing] IN
             IF plan_id = "none"
             THEN hook' = HookAnswer(h, 200, "no_plan")
             ELSE \* `seconds * 1000` leaves the i64 range for a huge
                  \* current_period_end
                  \/ /\ hook.overflow_checks
                     /\ hook' = [h EXCEPT !.pc = "panicked"]
                  \/ hook' = [h EXCEPT !.pc = "action", !.plan = plan_id,
                                       !.action = IF existing # "none"
                                                  THEN "subscriptions:updateSubscription"
                                                  ELSE "subscriptions:createSubscription"]
    /\ UNCHANGED <<pipelineVars, limiterVars, routerVars, jwksVars, toolVars, webhook>>

ActionFailureIgnored(h) == HookAnswer(h, 200, "call_failed")

\* `.await?` on the backend action
ActionFailed(h) == HookAnswer(h, 500, "call_failed")

\* state.convex.action_value(action_name, ...).await
ActionReturn ==
    /\ hook.pc = "action"
    /\ hook' \in {ActionFailed(hook), HookAnswer(hook, 200, "synced")}
    /\ UNCHANGED <<pipelineVars, limiterVars, routerVars, jwksVars, toolVars, webhook>>

NextWebhook ==
    \/ handle_stripe_webhook
    \/ RetrieveSubscriptionReturn
    \/ get_clerk_id_for_customer
    \/ SubscriptionsGetReturn
    \/ ActionReturn

(***************************************************************************)
(* The PDF toolchain (ghostscript.rs).  A line of the inkcov output is the *)
(* sequence of its whitespace-separated tokens; an f64 is named by its     *)
(* decimal text.                                                           *)
(***************************************************************************)
InitOthers ==
    /\ InitPipeline /\ InitLimiter /\ InitRouter /\ InitJwks /\ InitWebhook

parse_f64_token(token) ==
    CASE token \in {"0.25", "1.0"} -> token
      [] token = "0,5"             -> "0.5"
      [] OTHER                     -> "none"

InkcovLines ==
    {<<"0.25", "1.0", "0.25", "0.25", "CMYK", "OK">>,
     <<"0,5", "0,5", "0,5", "0,5">>,
     <<"Page", "1">>,
     <<"0.25", "0.25", "0.25", "1.5,2">>,
     <<"Page", "0.25", "1.0", "0.25", "0.25", "0.25">>}

\* the last window of four consecutive tokens that all parse as f64
parse_inkcov_line(tokens) ==
    LET starts == {i \in 1..(Len(tokens) - 3) :
                      \A d \in 0..3 : parse_f64_token(tokens[i + d]) # "none"}
    IN  IF Len(tokens) < 4 \/ starts = {}
        THEN [ok |-> FALSE, c |-> "", m |-> "", y |-> "", k |-> "", ink_type |-> <<>>]
        ELSE LET index == CHOOSE i \in starts : \A j \in starts : j <= i
             IN  [ok |-> TRUE,
                  c |-> parse_f64_token(tokens[index]),
                  m |-> parse_f64_token(tokens[index + 1]),
                  y |-> parse_f64_token(tokens[index + 2]),
                  k |-> parse_f64_token(tokens[index + 3]),
                  ink_type |-> SubSeq(tokens, index + 4, Len(tokens))]

RECURSIVE parse_inkcov_profiles(_, _, _)
parse_inkcov_profiles(lines, page_count, profiles) ==
    IF lines = <<>> THEN profiles
    ELSE LET parsed == parse_inkcov_line(Head(lines))
             page == Len(profiles) + 1
             profile == [page |-> page, c |-> parsed.c, m |-> parsed.m, y |-> parsed.y,
                         k |-> parsed.k, ink_type |-> parsed.ink_type]
         IN  IF ~parsed.ok
             THEN parse_inkcov_profiles(Tail(lines), page_count, profiles)
             ELSE IF page > page_count
             THEN profiles
             ELSE parse_inkcov_profiles(Tail(lines), page_count,
                                        Append(profiles, profile))

ZeroProfile(page) ==
    [page |-> page, c |-> "0.0", m |-> "0.0", y |-> "0.0", k |-> "0.0", ink_type |-> <<>>]

NormalizeWithoutPadding(profiles, page_count) ==
    [i \in 1..(IF Len(profiles) > page_count THEN page_count ELSE Len(profiles)) |->
        [profiles[i] EXCEPT !.page = i]]

normalize_profiles(profiles, page_count) ==
    LET expected == IF page_count > 0 THEN page_count ELSE 0
        kept == IF Len(profiles) > expected THEN expected ELSE Len(profiles)
    IN  [i \in 1..expected |->
            IF i <= kept THEN [profiles[i] EXCEPT !.page = i] ELSE ZeroProfile(i)]

\* the color_profiles of the PdfAnalysis analyze_pdf returns
color_profiles(inkcov_output, page_count) ==
    LET parsed == parse_inkcov_profiles(inkcov_output, page_count, <<>>)
    IN  IF Len(parsed) # page_count
        THEN normalize_profiles(parsed, page_count)
        ELSE parsed

AnalysisInputs ==
    [pc : {"call"}, fn : {"analyze_pdf"},
     inkcov_output : SeqsUpTo(InkcovLines, MaxLines), page_count : 1..MaxPages,
     color_profiles : {<<>>}]

analyze_pdf ==
    /\ calc.pc = "call" /\ calc.fn = "analyze_pdf"
    /\ calc' = [calc EXCEPT !.pc = "returned",
                            !.color_profiles = color_profiles(calc.inkcov_output,
                                                              calc.page_count)]
    /\ UNCHANGED <<pipelineVars, limiterVars, routerVars, jwksVars, webhookVars>>

InitAnalyze == InitOthers /\ calc \in AnalysisInputs

SpecAnalyze == InitAnalyze /\ [][analyze_pdf]_vars

\* b"/Subtype /Widget"
WidgetMarker ==
    <<"/", "S", "u", "b", "t", "y", "p", "e", " ", "/", "W", "i", "d", "g", "e", "t">>

\* bytes.windows(15)
WindowLen == 15

\* the files analyze_pdf may be given: the marker, whole, cut at either end or
\* with one byte changed, between up to MaxPad other bytes on each side
PdfFiles ==
    {pre \o mid \o post :
        pre \in SeqsUpTo({"/", "t"}, MaxPad),
        mid \in {<<>>, WidgetMarker, SubSeq(WidgetMarker, 1, 15), SubSeq(WidgetMarker, 2, 16),
                 [WidgetMarker EXCEPT ![9] = "/"]},
        post \in SeqsUpTo({"/", "t"}, MaxPad)}

\* match tokio::fs::read(file_path).await { Ok(bytes) => ..., Err(_) => false }
has_formfields(readable, bytes) ==
    /\ readable
    /\ \E i \in 1..(Len(bytes) - WindowLen + 1) :
          SubSeq(bytes, i, i + WindowLen - 1) = WidgetMarker

FormfieldsScan ==
    /\ calc.pc = "call" /\ calc.fn = "has_formfields"
    /\ calc' = [calc EXCEPT !.pc = "returned",
                            !.has_formfields = has_formfields(calc.readable, calc.bytes)]
    /\ UNCHANGED <<pipelineVars, limiterVars, routerVars, jwksVars, webhookVars>>

InitFormfields ==
    /\ InitOthers
    /\ calc \in [pc : {"call"}, fn : {"has_formfields"}, readable : BOOLEAN,
                 bytes : PdfFiles, has_formfields : {FALSE}]

SpecFormfields == InitFormfields /\ [][FormfieldsScan]_vars

\* sanitize_base_name on strings over one safe character ("a"), the
\* underscore and one character outside [a-zA-Z0-9_-] ("#"); NameCap stands for
\* the 80 of `output.chars().take(80)`, scaled to the strings of the model
NameChars == {"a", "_", "#"}

\* NON_SAFE_RE.replace_all(value, "_"): every maximal run of unsafe characters
\* becomes one underscore
RECURSIVE ReplaceUnsafe(_)
ReplaceUnsafe(value) ==
    IF value = <<>> THEN <<>>
    ELSE IF Head(value) # "#" THEN <<Head(value)>> \o ReplaceUnsafe(Tail(value))
    ELSE IF Len(value) > 1 /\ value[2] = "#" THEN ReplaceUnsafe(Tail(value))
    ELSE <<"_">> \o ReplaceUnsafe(Tail(value))

\* EDGE_UNDERSCORE_RE.replace_all(&replaced, ""): ^_+ and _+$ are removed
TrimEdgeUnderscores(replaced) ==
    LET keep == {i \in 1..Len(replaced) : replaced[i] # "_"}
    IN  IF keep = {} THEN <<>>
        ELSE LET first == CHOOSE i \in keep : \A j \in keep : i <= j
                 last == CHOOSE i \in keep : \A j \in keep : j <= i
             IN  SubSeq(replaced, first, last)

\* output.chars().take(80).collect()
Truncate(output) == SubSeq(output, 1, IF Len(output) < NameCap THEN Len(output) ELSE NameCap)

sanitize_base_name(value) ==
    LET output == TrimEdgeUnderscores(ReplaceUnsafe(value))
    IN  IF output = <<>> THEN <<"document">> ELSE Truncate(output)

SanitizeCall ==
    /\ calc.pc = "call" /\ calc.fn = "sanitize_base_name"
    /\ calc' = [calc EXCEPT !.pc = "returned", !.output = sanitize_base_name(calc.value)]
    /\ UNCHANGED <<pipelineVars, limiterVars, routerVars, jwksVars, webhookVars>>

InitSanitize ==
    /\ InitOthers
    /\ calc \in [pc : {"call"}, fn : {"sanitize_base_name"},
                 value : SeqsUpTo(NameChars, MaxNameLen), output : {<<>>}]

SpecSanitize == InitSanitize /\ [][SanitizeCall]_vars

(***************************************************************************)
(* client_identity (middleware.rs).  A header token is what stands between *)
(* two commas: an address or nothing, with or without blanks around it.    *)
(***************************************************************************)
HeaderTokens == [core : {"", "203.0.113.9", "198.51.100.7"}, padded : BOOLEAN]

\* str::trim
Trim(token) == token.core

\* the requests a rate-limit middleware may see; the server is started with
\* into_make_service_with_connect_info, so the socket address is present
IdentityInputs ==
    {in \in [pc : {"call"}, fn : {"client_identity"}, trust_proxy : BOOLEAN,
             has_xff : BOOLEAN,
             xff : UNION {[1..k -> HeaderTokens] : k \in 1..MaxTokens},
             has_real_ip : BOOLEAN, real_ip : HeaderTokens,
             has_socket : {TRUE}, socket : {"192.0.2.1"}, key : {""}] :
        /\ in.has_xff \/ in.xff = <<[core |-> "", padded |-> FALSE]>>
        /\ in.has_real_ip \/ in.real_ip = [core |-> "", padded |-> FALSE]}

\* value.split(',').next() and then trim()
FirstToken(xff) == Trim(xff[1])

client_identity(in) ==
    IF in.trust_proxy /\ in.has_xff /\ FirstToken(in.xff) # ""
    THEN FirstToken(in.xff)
    ELSE IF in.trust_proxy /\ in.has_real_ip /\ Trim(in.real_ip) # ""
    THEN Trim(in.real_ip)
    ELSE IF in.has_socket THEN in.socket ELSE "unknown"

ClientIdentityCall ==
    /\ calc.pc = "call" /\ calc.fn = "client_identity"
    /\ calc' = [calc EXCEPT !.pc = "returned", !.key = client_identity(calc)]
    /\ UNCHANGED <<pipelineVars, limiterVars, routerVars, jwksVars, webhookVars>>

InitIdentity == InitOthers /\ calc \in IdentityInputs

SpecIdentity == InitIdentity /\ [][ClientIdentityCall]_vars

\* ---- reserve_units_for_clerk_user (quota.rs), plans.rs ----
\* monthly_units: None (no monthly limit)
Unlimited == -1

plan_definition(plan_id) ==
    CASE plan_id = "free"       -> 400
      [] plan_id = "starter"    -> 5000
      [] plan_id = "pro"        -> 25000
      [] plan_id = "business"   -> 100000
      [] plan_id = "enterprise" -> Unlimited

IsActiveOnly(status) == TrimLower(status) = "active"

is_subscription_active(status) == TrimLower(status) \in {"active", "trialing"}

\* the status and plan fields of the record subscriptions:get answers with
SubscriptionStatuses ==
    {"absent", "active", "trialing", " Active ", "TRIALING", "canceled", "past_due"}

SubscriptionPlans ==
    {"absent", "starter", " starter ", "pro", "Pro", "business", "enterprise", "gold"}

\* query: the outcome of subscriptions:get (an error, null, a record)
ReserveInputs ==
    {in \in [pc : {"call"}, fn : {"reserve_units_for_clerk_user"},
             query : {"err", "none", "some"},
             status : SubscriptionStatuses, plan : SubscriptionPlans,
             plan_id : {"none"}, invoked : {FALSE}, monthly_quota : {0},
             result : {"none"}] :
        in.query # "some" => (in.status = "absent" /\ in.plan = "absent")}

ReservePlan(in) ==
    IF in.query = "some" /\ is_subscription_active(in.status)
    THEN resolve_plan_id(in.plan)
    ELSE "free"

\* subscriptions:get returns: `?` on an error, otherwise the action is sent
ReserveQueryReturn ==
    /\ calc.pc = "call" /\ calc.fn = "reserve_units_for_clerk_user"
    /\ calc' = IF calc.query = "err"
               THEN [calc EXCEPT !.pc = "returned", !.result = "err"]
               ELSE [calc EXCEPT !.pc = "action", !.invoked = TRUE,
                                 !.plan_id = ReservePlan(calc),
                                 !.monthly_quota = plan_definition(ReservePlan(calc))]
    /\ UNCHANGED <<pipelineVars, limiterVars, routerVars, jwksVars, webhookVars>>

\* usage:reserveForClerkUser returns
ReserveActionResult ==
    /\ calc.pc = "action" /\ calc.fn = "reserve_units_for_clerk_user"
    /\ \E result \in {"ok", "err"} :
          calc' = [calc EXCEPT !.pc = "returned", !.result = result]
    /\ UNCHANGED <<pipelineVars, limiterVars, routerVars, jwksVars, webhookVars>>

InitReserve == InitOthers /\ calc \in ReserveInputs

NextReserve == ReserveQueryReturn \/ ReserveActionResult

SpecReserve == InitReserve /\ [][NextReserve]_vars

\* ---- log_pdfinfo_fallback (ghostscript.rs) ----
FallbackThreads == 1..NumFallbacks

\* the reasons try_get_pdf_page_count_with_pdfinfo falls back with
FallbackReasons == {"spawn failed", "exit", "missing Pages", "invalid Pages"}

LoadOnly(flag) == [previous |-> flag, stored |-> flag]

\* HAS_LOGGED_PDFINFO_FALLBACK.swap(true, Ordering::SeqCst)
Swap(flag) == [previous |-> flag, stored |-> TRUE]

\* thread[t].pc: "idle", "swap" (called, before the swap), "log" (past the
\* swap, before tracing::info!), "logged", "silent" (returned early)
InitFallback ==
    /\ InitOthers
    /\ calc = [pc |-> "call", fn |-> "log_pdfinfo_fallback",
               HAS_LOGGED_PDFINFO_FALLBACK |-> FALSE,
               thread |-> [t \in FallbackThreads |-> [pc |-> "idle", reason |-> "none"]],
               lines |-> <<>>]

log_pdfinfo_fallback(t) ==
    /\ calc.fn = "log_pdfinfo_fallback" /\ calc.thread[t].pc = "idle"
    /\ \E reason \in FallbackReasons :
          calc' = [calc EXCEPT !.thread[t] = [pc |-> "swap", reason |-> reason]]
    /\ UNCHANGED <<pipelineVars, limiterVars, routerVars, jwksVars, webhookVars>>

FallbackSwap(t) ==
    /\ calc.fn = "log_pdfinfo_fallback" /\ calc.thread[t].pc = "swap"
    /\ LET swap == Swap(calc.HAS_LOGGED_PDFINFO_FALLBACK) IN
       calc' = [calc EXCEPT !.HAS_LOGGED_PDFINFO_FALLBACK = swap.stored,
                            !.thread[t].pc = IF swap.previous THEN "silent" ELSE "log"]
    /\ UNCHANGED <<pipelineVars, limiterVars, routerVars, jwksVars, webhookVars>>

FallbackInfo(t) ==
    /\ calc.fn = "log_pdfinfo_fallback" /\ calc.thread[t].pc = "log"
    /\ calc' = [calc EXCEPT !.lines = Append(@, calc.thread[t].reason),
                            !.thread[t].pc = "logged"]
    /\ UNCHANGED <<pipelineVars, limiterVars, routerVars, jwksVars, webhookVars>>

NextFallback ==
    \E t \in FallbackThreads :
        log_pdfinfo_fallback(t) \/ FallbackSwap(t) \/ FallbackInfo(t)

SpecFallback == InitFallback /\ [][NextFallback]_vars

\* ---- run_ghostscript_job (state.rs): admission alone ----
\* the futures that call run_ghostscript_job, each again and again
Jobs == 1..NumJobs

PermitLeaked(available) == available

\* `drop(permit)`
DropPermit(available) == available + 1

\* job[c]: "idle", "waiting" (inside acquire().await), "task" (admitted,
\* inside task().await), "ok" / "err" (returned with the task's result),
\* "dropped" (the future was dropped)
InitAdmission ==
    /\ InitOthers
    /\ calc = [pc |-> "call", fn |-> "run_ghostscript_job",
               available_permits |-> ghostscript_concurrency,
               job |-> [c \in Jobs |-> "idle"]]

\* run_ghostscript_job is called
JobEnqueue(c) ==
    /\ calc.fn = "run_ghostscript_job"
    /\ calc.job[c] \in {"idle", "ok", "err", "dropped"}
    /\ calc' = [calc EXCEPT !.job[c] = "waiting"]
    /\ UNCHANGED <<pipelineVars, limiterVars, routerVars, jwksVars, webhookVars>>

\* ghostscript_semaphore.acquire().await returns the permit
JobAdmit(c) ==
    /\ calc.fn = "run_ghostscript_job" /\ calc.job[c] = "waiting"
    /\ CanAcquire(calc.available_permits)
    /\ calc' = [calc EXCEPT !.job[c] = "task", !.available_permits = @ - 1]
    /\ UNCHANGED <<pipelineVars, limiterVars, routerVars, jwksVars, webhookVars>>

\* task().await returns; the permit is dropped and the result returned
JobTaskReturn(c) ==
    /\ calc.fn = "run_ghostscript_job" /\ calc.job[c] = "task"
    /\ \E result \in {"ok", "err"} :
          calc' = [calc EXCEPT !.job[c] = result,
                               !.available_permits = DropPermit(@)]
    /\ UNCHANGED <<pipelineVars, limiterVars, routerVars, jwksVars, webhookVars>>

\* the caller's future is dropped while it waits or while the task runs
JobDropped(c) ==
    /\ calc.fn = "run_ghostscript_job" /\ calc.job[c] \in {"waiting", "task"}
    /\ calc' = [calc EXCEPT !.job[c] = "dropped",
                            !.available_permits =
                                PermitsAfterUnwind(calc.job[c] = "task", @)]
    /\ UNCHANGED <<pipelineVars, limiterVars, routerVars, jwksVars, webhookVars>>

NextAdmission ==
    \E c \in Jobs : JobEnqueue(c) \/ JobAdmit(c) \/ JobTaskReturn(c) \/ JobDropped(c)

\* tokio's Semaphore hands permits out in the order they were requested, so
\* a waiter that could be served again and again is served (strong fairness);
\* every admitted task terminates and the runtime polls it (weak fairness)
FairAdmission ==
    \A c \in Jobs : SF_vars(JobAdmit(c)) /\ WF_vars(JobTaskReturn(c))

SpecAdmission == InitAdmission /\ [][NextAdmission]_vars /\ FairAdmission

\* ---- AuthService::verify_token: the issuer check and get_jwks (auth.rs) ----
\* CLERK_ISSUER as the environment gives it ("unset": not set)
IssuerConfigs == {"unset", "", "https://clerk.example", "https://clerk.example/"}

\* the iss claim of a presented token ("absent": no iss claim)
IssClaims ==
    {"absent", "https://clerk.example", "https://clerk.example/",
     " https://clerk.example ", "https://evil.example", "https://evil.example/",
     "https://clerk.example.evil.example"}

\* trim().trim_end_matches('/') on the spellings above
NormalizeIssuer(text) ==
    CASE text \in {"https://clerk.example/", " https://clerk.example "}
                                           -> "https://clerk.example"
      [] text = "https://evil.example/"    -> "https://evil.example"
      [] OTHER                             -> text

\* AuthService::new: expected_issuer ("none": None)
ExpectedIssuer(config) ==
    IF config = "unset" \/ NormalizeIssuer(config) = "" THEN "none"
    ELSE NormalizeIssuer(config)

IssuerCheckSkipped(expected_issuer, issuer) == FALSE

\* `if let Some(expected_issuer) = .. { if issuer != *expected_issuer {`
IssuerMismatch(expected_issuer, issuer) ==
    expected_issuer # "none" /\ issuer # expected_issuer

\* requested: the issuers a GET <issuer>/.well-known/jwks.json was sent to;
\* cache: the keys of jwks_cache
InitIssuer ==
    /\ InitOthers
    /\ \E config \in IssuerConfigs :
          calc = [pc |-> "idle", fn |-> "verify_token", config |-> config,
                  expected_issuer |-> ExpectedIssuer(config),
                  iss |-> "absent", issuer |-> "none", result |-> "none",
                  requested |-> {}, cache |-> {}]

\* verify_token up to the call of get_jwks
VerifyTokenCall ==
    /\ calc.fn = "verify_token" /\ calc.pc = "idle"
    /\ \E has_kid \in BOOLEAN, iss \in IssClaims :
          LET issuer == NormalizeIssuer(iss)
              call == [calc EXCEPT !.iss = iss, !.issuer = "none"] IN
          calc' = IF ~has_kid THEN [call EXCEPT !.result = "JWT header missing kid"]
                  ELSE IF iss = "absent" THEN [call EXCEPT !.result = "JWT missing iss claim"]
                  ELSE IF IssuerMismatch(calc.expected_issuer, issuer)
                  THEN [call EXCEPT !.result = "JWT issuer mismatch"]
                  ELSE [call EXCEPT !.issuer = issuer, !.result = "none", !.pc = "read"]
    /\ UNCHANGED <<pipelineVars, limiterVars, routerVars, jwksVars, webhookVars>>

\* get_jwks, the read lock: a fresh entry is returned and the token verified
\* against it, otherwise the GET is sent
IssuerReadCache ==
    /\ calc.fn = "verify_token" /\ calc.pc = "read"
    /\ \/ /\ calc.issuer \in calc.cache
          /\ \E result \in {"Ok", "No matching JWK found for kid"} :
                calc' = [calc EXCEPT !.pc = "idle", !.result = result]
       \/ calc' = [calc EXCEPT !.pc = "send", !.requested = @ \cup {calc.issuer}]
    /\ UNCHANGED <<pipelineVars, limiterVars, routerVars, jwksVars, webhookVars>>

\* get_jwks: the GET and its body return; the key set is cached
IssuerFetchReturn ==
    /\ calc.fn = "verify_token" /\ calc.pc = "send"
    /\ \/ calc' = [calc EXCEPT !.pc = "idle", !.result = "failed to fetch JWKS"]
       \/ \E result \in {"Ok", "JWT signature validation failed"} :
             calc' = [calc EXCEPT !.pc = "idle", !.result = result,
                                  !.cache = @ \cup {calc.issuer}]
    /\ UNCHANGED <<pipelineVars, limiterVars, routerVars, jwksVars, webhookVars>>

NextIssuer == VerifyTokenCall \/ IssuerReadCache \/ IssuerFetchReturn

SpecIssuer == InitIssuer /\ [][NextIssuer]_vars

\* ---- concurrent subscription syncs of one user (handlers.rs) ----
\* sync_subscription_from_stripe (a webhook event) or sync_stripe_session
Syncs == 1..NumSyncs

SyncIdle == [pc |-> "idle", via |-> "none", action_name |-> "none"]

\* `if existing_subscription.is_some() { update } else { create }`
ActionName(existing_subscription) ==
    IF existing_subscription THEN "subscriptions:updateSubscription"
    ELSE "subscriptions:createSubscription"

\* exists: the backend has a subscription record of the user;
\* creates: invocations of subscriptions:createSubscription for the user
InitSync ==
    /\ InitOthers
    /\ \E exists \in BOOLEAN :
          calc = [pc |-> "call", fn |-> "sync_subscription", exists |-> exists,
                  creates |-> 0, sync |-> [s \in Syncs |-> SyncIdle]]

\* the query subscriptions:get is sent
SyncStart(s) ==
    /\ calc.fn = "sync_subscription" /\ calc.sync[s].pc = "idle"
    /\ \E via \in {"webhook", "session"} :
          calc' = [calc EXCEPT !.sync[s] = [SyncIdle EXCEPT !.pc = "get", !.via = via]]
    /\ UNCHANGED <<pipelineVars, limiterVars, routerVars, jwksVars, webhookVars>>

\* subscriptions:get returns (or fails); the action is chosen and sent
SyncGetReturn(s) ==
    /\ calc.fn = "sync_subscription" /\ calc.sync[s].pc = "get"
    /\ \/ calc' = [calc EXCEPT !.sync[s].pc = "failed"]
       \/ LET name == ActionName(calc.exists) IN
          calc' = [calc EXCEPT !.sync[s].pc = "action", !.sync[s].action_name = name,
                               !.creates = IF name = "subscriptions:createSubscription"
                                           THEN @ + 1 ELSE @]
    /\ UNCHANGED <<pipelineVars, limiterVars, routerVars, jwksVars, webhookVars>>

\* the action returns: the backend has written the record, or it failed
SyncActionReturn(s) ==
    /\ calc.fn = "sync_subscription" /\ calc.sync[s].pc = "action"
    /\ \/ calc' = [calc EXCEPT !.sync[s].pc = "synced", !.exists = TRUE]
       \/ calc' = [calc EXCEPT !.sync[s].pc = "failed"]
    /\ UNCHANGED <<pipelineVars, limiterVars, routerVars, jwksVars, webhookVars>>

NextSync == \E s \in Syncs : SyncStart(s) \/ SyncGetReturn(s) \/ SyncActionReturn(s)

SpecSync == InitSync /\ [][NextSync]_vars

InitFront == InitLimiter /\ InitRouter /\ InitJwks /\ InitWebhook /\ InitTools

InitHook ==
    /\ InitPipeline /\ InitLimiter /\ InitRouter /\ InitJwks /\ InitTools
    /\ webhook = WebhookIdle
    /\ hook \in HookRequests

SpecWebhook == InitHook /\ [][NextWebhook]_vars

Init == InitPipeline /\ InitFront

NextLimiter ==
    \/ \E c \in Callers : InstantNow(c) \/ LockBuckets(c)
    \/ Tick

SpecLimiter == Init /\ [][NextLimiter]_vars

SpecRouter == Init /\ [][NextRouter]_vars

SpecJwks == Init /\ [][NextJwks]_vars

InitUpload == Init

NextUpload == SinkCall \/ SinkNextField \/ SinkNextChunk

SpecUpload == InitUpload /\ [][NextUpload]_vars

Next ==
    \/ \E r \in Reqs :
          \/ test_document(r)
          \/ preflight_for_clerk_user(r)
          \/ grayscale_for_clerk_user(r)
          \/ health(r)
          \/ HealthGsExit(r)
          \/ HealthConvexReturn(r)
          \/ Acquire(r)
          \/ AcquireConv(r)
          \/ PdfinfoExit(r)
          \/ GsPageCountExit(r)
          \/ ReserveSubscriptionReturn(r)
          \/ ReserveActionReturn(r)
          \/ AnalyzeExit(r)
          \/ FormfieldsRead(r)
          \/ ConvertExit(r)
          \/ CommitReturn(r)
          \/ ReleaseReturn(r)
          \/ ReadOutput(r)
          \/ RemoveTemp(r)
          \/ RemoveOutput(r)
          \/ Cancel(r)
          \/ Panic(r)
    \/ OrphanExit

Spec == Init /\ [][Next]_vars

\* ---- SpecGrayscale: one grayscale request with its upload in view ----
\* the mode texts a client may send, as the sink trims them
ModeTexts == FieldTexts \cup {"Production"}

ModeUploads ==
    {s \in GrayscaleUploads : s.pc = "done"}
    \cup {SinkRun(SinkStart("save_pdf_with_mode_from_multipart", ApiUploadLimit),
                  <<ModePart(m), FilePart, Data(1), Eof, [t |-> "end"]>>) :
             m \in ModeTexts}

InitGrayscale ==
    /\ sink \in ModeUploads
    /\ req = [r \in Reqs |-> ReqIdle]
    /\ permits = ghostscript_concurrency
    /\ orphans = 0
    /\ InitFront

NextGrayscale ==
    \/ \E r \in {1} :
          \/ GrayscaleUploaded(r)
          \/ Acquire(r)
          \/ AcquireConv(r)
          \/ PdfinfoExit(r)
          \/ GsPageCountExit(r)
          \/ ReserveSubscriptionReturn(r)
          \/ ReserveActionReturn(r)
          \/ ConvertExit(r)
          \/ CommitReturn(r)
          \/ ReleaseReturn(r)
          \/ ReadOutput(r)
          \/ RemoveTemp(r)
          \/ RemoveOutput(r)
          \/ Cancel(r)
          \/ Panic(r)
    \/ OrphanExit

SpecGrayscale == InitGrayscale /\ [][NextGrayscale]_vars

(***************************************************************************)
(* Properties.                                                             *)
(***************************************************************************)
Holders == {r \in Reqs : req[r].permit}

LiveChildren == Cardinality({r \in Reqs : req[r].child # "none"}) + orphans

Settled(q) == q.commits + q.releases

\* C1 (as stated): every quota request whose reserve call answered
\* allowed = true has exactly one of commit / release invoked by the time the
\* handler has returned its response.
C1_ExactlyOneForAllowed ==
    \A r \in Reqs :
        (req[r].kind \in QuotaKinds /\ req[r].pc = "done"
            /\ req[r].resv \in {"held", "noid"})
        => Settled(req[r]) = 1

\* C1 (amended): every quota request whose reserve call answered allowed = true
\* together with a reservation_id has exactly one of commit / release invoked
\* by the time the handler has returned its response; never both, at any time.
C1_ExactlyOneForReservation ==
    \A r \in Reqs :
        req[r].kind \in QuotaKinds =>
            /\ Settled(req[r]) <= 1
            /\ (req[r].pc = "done" /\ req[r].resv = "held") => Settled(req[r]) = 1

C1_Witness ==
    \E r \in Reqs :
        /\ req[r].kind = "grayscale" /\ req[r].pc = "done" /\ req[r].resv = "held"
        /\ req[r].releases = 1 /\ req[r].commits = 0

\* C2: after a successful reservation, commit is invoked iff the processing
\* step succeeded and release iff it failed, a subprocess timeout included.
C2_CommitIffSuccess ==
    \A r \in Reqs :
        (req[r].kind \in QuotaKinds /\ req[r].proc # "dropped") =>
            /\ req[r].commits > 0 => req[r].proc = "ok"
            /\ req[r].releases > 0 => req[r].proc \in {"err", "timeout"}
            /\ (req[r].pc = "done" /\ req[r].resv = "held") =>
                  /\ req[r].proc = "ok" => req[r].commits = 1
                  /\ req[r].proc \in {"err", "timeout"} => req[r].releases = 1
                  /\ req[r].proc \in {"ok", "err", "timeout"}

C2_Witness ==
    \E r \in Reqs :
        /\ req[r].kind = "preflight" /\ req[r].pc = "done" /\ req[r].resv = "held"
        /\ req[r].proc = "timeout" /\ req[r].releases = 1 /\ req[r].commits = 0

\* C3: within one quota request the processing step starts only after the
\* reserve call has returned a reservation, and commit / release is issued only
\* after the processing step has finished.
C3_StrictOrder ==
    \A r \in Reqs :
        (req[r].kind \in QuotaKinds /\ req[r].proc # "dropped") =>
            /\ req[r].proc # "notstarted" => req[r].resv = "held"
            /\ req[r].pc \in {"reserve_sub", "reserve_act"} => req[r].proc = "notstarted"
            /\ Settled(req[r]) > 0 => req[r].proc \in {"ok", "err", "timeout"}
            /\ req[r].proc = "running" => Settled(req[r]) = 0

C3_Witness ==
    \E r \in Reqs :
        /\ req[r].kind = "grayscale" /\ req[r].pc = "commit"
        /\ req[r].resv = "held" /\ req[r].proc = "ok" /\ req[r].commits = 1

\* C4: once a handler whose upload was saved has exited (response returned, or
\* panic inside the job), neither the upload temp file nor the output file is
\* left on disk.
C4_TempFilesRemoved ==
    \A r \in Reqs :
        (req[r].saved /\ req[r].pc \in {"done", "panicked"})
        => (~req[r].temp /\ ~req[r].out)

\* C5: a request cancelled after its upload was saved leaves no temp file, and
\* a reservation it held and had not settled is released.
C5_CancelCleansUp ==
    \A r \in Reqs :
        (req[r].saved /\ req[r].pc = "cancelled") =>
            /\ ~req[r].temp /\ ~req[r].out
            /\ req[r].resv = "held" => Settled(req[r]) >= 1

\* C6: when the Upload Sink returns an error, no temp file created by that
\* call remains on disk.
C6_NoFileAfterSinkError ==
    (sink.pc = "done" /\ sink.result \in UploadError) => ~sink.onDisk

FileCreated(s) == s.onDisk \/ s.result = "FileTooLarge"

\* C7: for every budget and chunking, a file part of exactly max_size_bytes is
\* accepted and kept (no fault injected), and one reaching max_size_bytes + 1
\* fails with FileTooLarge and leaves no file.
C7_BudgetBoundary ==
    /\ (sink.pc = "done" /\ ~sink.fault /\ FileCreated(sink)
            /\ sink.total_size = sink.max_size_bytes)
        => (sink.result = "Ok" /\ sink.onDisk)
    /\ sink.total_size = sink.max_size_bytes + 1
        => (sink.pc = "done" /\ sink.result = "FileTooLarge" /\ ~sink.onDisk)
    /\ sink.result = "FileTooLarge" => sink.total_size > sink.max_size_bytes

C7_Witness ==
    /\ sink.result = "Ok" /\ sink.onDisk /\ sink.nchunks = 2
    /\ sink.max_size_bytes > 0 /\ sink.total_size = sink.max_size_bytes

\* C8: at most ghostscript_concurrency jobs are inside run_ghostscript_job
\* between permit acquisition and permit release.
C8_BoundedJobs == Cardinality(Holders) <= ghostscript_concurrency

C8_Witness ==
    \E r1, r2 \in Reqs :
        /\ r1 # r2 /\ req[r1].permit /\ req[r1].child = "gs"
        /\ req[r2].pc \in {"acquire", "acquire_conv"}

\* C9: every live subprocess belongs to a request that holds a permit, so the
\* number of live subprocesses never exceeds ghostscript_concurrency.
C9_SubprocessUnderPermit ==
    /\ \A r \in Reqs : req[r].child # "none" => req[r].permit
    /\ LiveChildren <= ghostscript_concurrency

\* C10: permits are conserved: the available permits plus the jobs holding one
\* always equal the capacity, so with no job running every permit is available.
C10_PermitsConserved ==
    /\ permits + Cardinality(Holders) = ghostscript_concurrency
    /\ permits >= 0
    /\ Holders = {} => permits = ghostscript_concurrency

C10_Witness ==
    \E r1, r2 \in Reqs :
        /\ req[r1].pc = "panicked" /\ req[r2].pc = "cancelled" /\ req[r2].resv = "held"
        /\ Holders = {} /\ permits = ghostscript_concurrency

(***************************************************************************)
(* Rate limiter properties.                                                *)
(***************************************************************************)
RECURSIVE SumOver(_, _)
SumOver(f, S) ==
    IF S = {} THEN 0
    ELSE LET x == CHOOSE y \in S : TRUE IN f[x] + SumOver(f, S \ {x})

\* admissions for key k with a timestamp in the closed interval [from, to]
Admissions(k, from, to) ==
    SumOver(admitted[k], {t \in Instants : from <= t /\ t <= to})

\* C11: for every key and every contiguous interval of length window, at most
\* max_requests calls returned true with a timestamp inside the interval,
\* whatever the interleaving of the callers.
C11_WindowBound ==
    \A k \in Keys : \A t \in Instants :
        Admissions(k, t, t + window) <= max_requests

IsSuffix(s, t) ==
    \E i \in 0..Len(t) : s = SubSeq(t, i + 1, Len(t))

\* C12: check_and_count returns true iff fewer than max_requests admitted
\* timestamps of the key lie within the last window before now; on true it
\* appends exactly one timestamp (now), on false it appends nothing.
\* A call that returned true is held against the admissions stamped within
\* [now - window, now], one that returned false against all admissions
\* stamped now - window or later.
C12_AcceptIffBelowLimit ==
    [][\A c \in Callers :
          LockBuckets(c) =>
             LET k == caller[c].key
                 now == caller[c].now
             IN  /\ caller'[c].ret = "true" =>
                       Admissions(k, now - window, now) < max_requests
                 /\ caller'[c].ret = "false" =>
                       Admissions(k, now - window, MaxClock) >= max_requests
                 /\ caller'[c].ret = "true" =>
                       /\ Len(buckets'[k]) >= 1
                       /\ buckets'[k][Len(buckets'[k])] = now
                       /\ IsSuffix(SubSeq(buckets'[k], 1, Len(buckets'[k]) - 1),
                                   buckets[k])
                 /\ caller'[c].ret = "false" => IsSuffix(buckets'[k], buckets[k])]_vars

\* C13: every per-key bucket holds at most max_requests timestamps.
C13_BucketBounded ==
    \A k \in Keys : Len(buckets[k]) <= max_requests

C13_Witness ==
    /\ \E k \in Keys : Len(buckets[k]) = max_requests
    /\ \E c \in Callers : caller[c].ret = "false"

(***************************************************************************)
(* Router and middleware properties.                                       *)
(***************************************************************************)
InFlight(c) == http[c].pc # "idle"

\* C14: a request to POST /api/stripe/webhook consults no rate limiter: it is
\* never answered 429 and adds no timestamp to any bucket.
C14_WebhookNeverLimited ==
    \A c \in Conns :
        InFlight(c) /\ http[c].path = "/api/stripe/webhook" =>
            /\ http[c].limited = "no"
            /\ http[c].status # 429

C14_Witness ==
    \E c \in Conns :
        /\ http[c].path = "/api/stripe/webhook"
        /\ http[c].pc = "done"
        /\ http[c].handler
        /\ \A l \in Limiters : Len(limiters[l][http[c].src]) = max_requests

\* C15: a request to POST /process/preflight or POST /process/grayscale passes
\* a rate-limit check before its bearer token is verified, so that an exhausted
\* source is answered 429 without verification, upload or processing.
C15_RateLimitBeforeBearer ==
    \A c \in Conns :
        /\ InFlight(c)
        /\ http[c].path \in {"/process/preflight", "/process/grayscale"}
        /\ http[c].verified \/ http[c].handler \/ http[c].status = 401
        => http[c].limited = "passed"

\* C16: on every route nested under /api the order is rate limit, auth,
\* handler: a request rejected by the api rate limiter is answered 429 with no
\* token verification, no backend call and no handler, and the handler runs
\* only after both gates passed.
C16_ApiRateLimitThenAuth ==
    \A c \in Conns :
        InFlight(c) /\ RouterOf[http[c].path] \in ApiNested =>
            /\ http[c].limited = "no" =>
                  /\ ~http[c].verified
                  /\ http[c].convex = "none"
                  /\ http[c].user = "none"
                  /\ ~http[c].handler
                  /\ http[c].status = 0
            /\ http[c].limited = "rejected" =>
                  /\ http[c].status = 429
                  /\ ~http[c].verified
                  /\ http[c].convex = "none"
                  /\ ~http[c].handler
            /\ http[c].handler =>
                  /\ http[c].limited = "passed"
                  /\ http[c].user # "none"

C16_Witness ==
    \E c \in Conns :
        /\ RouterOf[http[c].path] \in ApiNested
        /\ http[c].pc = "done"
        /\ http[c].limited = "rejected"

\* C19: on a route behind bearer authentication every verification failure is
\* answered 401, the handler is not invoked and no AuthenticatedUser is
\* attached.
C19_AuthFailureIs401 ==
    \A c \in Conns :
        http[c].authErr # "none" =>
            /\ http[c].pc = "done"
            /\ http[c].status = 401
            /\ ~http[c].handler
            /\ http[c].user = "none"

C19_Witness ==
    \E c \in Conns :
        /\ http[c].authErr = "JWT signature validation failed"
        /\ http[c].pc = "done"
        /\ http[c].status = 401

(***************************************************************************)
(* Quota denial.                                                           *)
(***************************************************************************)
\* C17: when reserve returns allowed = false the preflight and grayscale
\* handlers start no analyze/convert subprocess, invoke neither commit nor
\* release, and respond 402 with the uploaded temp file removed.
C17_DenialIs402 ==
    \A r \in Reqs :
        req[r].kind \in QuotaKinds /\ req[r].resv = "denied" =>
            /\ req[r].proc \in {"notstarted", "dropped"}
            /\ req[r].child = "none"
            /\ req[r].commits = 0
            /\ req[r].releases = 0
            /\ req[r].pc = "done" =>
                  /\ req[r].status = 402
                  /\ ~req[r].temp
                  /\ ~req[r].out

C17_Witness ==
    \E r \in Reqs :
        /\ req[r].kind \in QuotaKinds
        /\ req[r].resv = "denied"
        /\ req[r].pc = "done"
        /\ req[r].status = 402

Verified == webhook.pc = "returned" /\ webhook.in.secret
            /\ webhook.in.has_t /\ webhook.in.v1 # "none"

\* C20: verification rejects a header whose timestamp t has |now - t| > 300
\* and does not reject on freshness when |now - t| <= 300; with a valid
\* signature t = now - 300 passes and t = now - 301 fails, and the same for
\* timestamps in the future.
C20_FreshnessWindow ==
    Verified =>
        LET age == Abs(webhook.in.now - webhook.in.t)
            stale == "Stripe signature timestamp outside tolerance."
        IN  /\ age > ToleranceSecs => webhook.result = stale
            /\ age <= ToleranceSecs =>
                  /\ webhook.result # stale
                  /\ webhook.in.utf8 /\ webhook.in.v1 = "match" => webhook.result = "Ok"

(***************************************************************************)
(* Webhook endpoint properties.                                            *)
(***************************************************************************)
HeaderValues(key) ==
    {hook.header[i].value : i \in {j \in 1..Len(hook.header) : hook.header[j].key = key}}

Handled == hook.pc \notin {"idle", "recv"}

\* C21: with a secret configured and a fresh timestamp t, the signature is
\* accepted iff the header carries t and some v1 equal to the hex HMAC-SHA256
\* of "t.payload"; a header without t, without v1 or with no equal v1 is
\* rejected, answered 400 and no event is dispatched.
C21_AcceptIffDigestMatches ==
    (Handled /\ hook.has_header /\ hook.secret /\ HeaderValues("t") \subseteq {"now"}) =>
        LET signed == "now" \in HeaderValues("t") /\ "now" \in HeaderValues("v1")
        IN  /\ hook.verify = "Ok" <=> signed
            /\ ~signed => hook.pc = "done" /\ hook.status = 400 /\ hook.type = "none"

\* what the claims call a verification failure of a request whose header
\* names one timestamp: no header, no t, no v1, a stale t, no v1 for that t
VerificationFails ==
    \/ ~hook.has_header
    \/ HeaderValues("t") \ {"junk"} = {}
    \/ HeaderValues("v1") = {}
    \/ \E ts \in {"old", "far"} : HeaderValues("t") = {ts}
    \/ \E ts \in TimestampTags : HeaderValues("t") = {ts} /\ ts \notin HeaderValues("v1")

\* C22: without a configured webhook secret every request to the endpoint is
\* answered 500; with one, every verification failure (missing header, missing
\* t or v1, stale timestamp, digest mismatch) is answered 400.
C22_UnconfiguredIs500 ==
    Handled =>
        /\ ~hook.secret => hook.pc = "done" /\ hook.status = 500
        /\ (hook.secret /\ VerificationFails) => hook.pc = "done" /\ hook.status = 400

SyncEvent == hook.pc = "done" /\ hook.type \in SubscriptionEvents \cup InvoiceEvents

\* C23 (as stated): for a correctly signed subscription or invoice event the
\* endpoint answers 500 whenever the event could not be synced (a call failed,
\* no clerkId, no plan) and 200 only when the sync was performed.
C23_UnsyncedIs500 ==
    SyncEvent =>
        /\ hook.outcome # "synced" => hook.status = 500
        /\ hook.status = 200 => hook.outcome = "synced"

\* C23 (amended): for a correctly signed subscription or invoice event the
\* endpoint answers 500 whenever a payment-provider or backend call failed or
\* the event object could not be decoded; it answers 200 when the sync was
\* performed and when there was nothing to sync (customer deleted or without
\* clerkId, no plan resolved, invoice without subscription); an unknown event
\* type is answered 200.
C23_FailedCallIs500 ==
    /\ SyncEvent =>
          /\ hook.verify = "Ok"
          /\ hook.outcome \in {"call_failed", "decode_failed"} <=> hook.status = 500
          /\ hook.outcome \in {"synced", "no_clerk", "no_plan", "no_subscription"}
                <=> hook.status = 200
          /\ hook.status \in {200, 500}
          /\ hook.outcome = "synced" => hook.action # "none"
    /\ (hook.pc = "done" /\ hook.outcome = "noop") => hook.status = 200

C23_Witness ==
    /\ SyncEvent /\ hook.type = "invoice.payment_succeeded"
    /\ hook.action = "subscriptions:updateSubscription"
    /\ hook.outcome = "call_failed" /\ hook.status = 500

MappedFirstPrice == hook.items # <<>> /\ hook.items[1] \in DOMAIN PriceMap

\* C24 (as stated): a correctly signed subscription-created event whose price
\* id maps to plan P has subscriptions:createSubscription invoked with plan P.
C24_CreateWithMappedPlan ==
    (SyncEvent /\ hook.type = "customer.subscription.created" /\ hook.outcome = "synced"
        /\ MappedFirstPrice)
    => (hook.action = "subscriptions:createSubscription" /\ hook.plan = PriceMap[hook.items[1]])

\* C24 (amended): whenever a backend action is invoked for a subscription whose
\* first price maps to plan P in the PriceMap, the plan sent is P, and the
\* action is subscriptions:createSubscription when the backend holds no
\* subscription record for the user and subscriptions:updateSubscription when
\* it holds one.
C24_MappedPlanIsSent ==
    (hook.action # "none" /\ MappedFirstPrice) =>
        /\ hook.plan = PriceMap[hook.items[1]]
        /\ hook.action = IF hook.existing = "none"
                         THEN "subscriptions:createSubscription"
                         ELSE "subscriptions:updateSubscription"

C24_Witness ==
    /\ SyncEvent /\ hook.type = "customer.subscription.created" /\ hook.outcome = "synced"
    /\ hook.items = <<"price_pro", "price_starter">>
    /\ hook.action = "subscriptions:createSubscription" /\ hook.plan = "pro"

(***************************************************************************)
(* PDF toolchain properties.                                               *)
(***************************************************************************)
Returned(fn) == calc.pc = "returned" /\ calc.fn = fn

\* C25: for every ink-coverage output and every page_count >= 1 the analysis
\* has exactly page_count color profiles and their page fields are
\* 1, 2, ..., page_count in order.
C25_OneProfilePerPage ==
    Returned("analyze_pdf") =>
        /\ Len(calc.color_profiles) = calc.page_count
        /\ \A i \in 1..Len(calc.color_profiles) : calc.color_profiles[i].page = i

C25_Witness ==
    /\ Returned("analyze_pdf")
    /\ calc.page_count = 3
    /\ Len(calc.inkcov_output) = 2
    /\ calc.color_profiles[1].k = "0.5"
    /\ calc.color_profiles[2].k = "0.0" /\ calc.color_profiles[3].page = 3

Contains(bytes, pattern) ==
    \E i \in 1..(Len(bytes) - Len(pattern) + 1) :
        SubSeq(bytes, i, i + Len(pattern) - 1) = pattern

\* C26: for a readable file has_formfields is true iff the file's bytes contain
\* "/Subtype /Widget" as a contiguous window; for an unreadable file it is
\* false.
C26_FormfieldsIffMarker ==
    Returned("has_formfields") =>
        (calc.has_formfields <=> (calc.readable /\ Contains(calc.bytes, WidgetMarker)))

\* C27: sanitize_base_name is idempotent, also for inputs whose sanitized form
\* is longer than the cap.
C27_SanitizeIdempotent ==
    Returned("sanitize_base_name") => sanitize_base_name(calc.output) = calc.output

\* C28: every subprocess a PDF toolchain operation launches, the fast-path
\* page-count utility included, is subject to the per-process timeout and to
\* kill-on-drop (so that the operation ends and the job's permit is released
\* even if the child never exits).
C28_EveryChildTimedAndKilled ==
    \A r \in Reqs :
        (req[r].kind \in {"test", "preflight", "grayscale"} /\ req[r].child # "none")
        => (SubjectToTimeout(req[r].child) /\ KillOnDrop(req[r].child))

(***************************************************************************)
(* Rate-limit key properties.                                              *)
(***************************************************************************)
\* C29: with TRUST_PROXY on the key is the first non-empty comma-separated
\* token of X-Forwarded-For if there is one, otherwise the non-empty
\* X-Real-IP, otherwise the socket IP; with TRUST_PROXY off it is the socket
\* IP whatever the headers.
C29_KeyFromProxyHeaders ==
    Returned("client_identity") =>
        LET filled == {i \in 1..Len(calc.xff) : calc.xff[i].core # ""}
        IN  calc.key =
              IF calc.trust_proxy /\ calc.has_xff /\ filled # {}
              THEN calc.xff[CHOOSE i \in filled : \A j \in filled : i <= j].core
              ELSE IF calc.trust_proxy /\ calc.has_real_ip /\ calc.real_ip.core # ""
              THEN calc.real_ip.core
              ELSE calc.socket

(***************************************************************************)
(* Reservation id properties.                                              *)
(***************************************************************************)
\* C30: the processing step of a quota request starts only when the
\* reservation carries a reservation_id: on allowed = true without an id the
\* handler responds 500, starts no processing subprocess and removes the temp
\* files.
C30_NoProcessingWithoutId ==
    \A r \in Reqs :
        req[r].kind \in QuotaKinds =>
            /\ req[r].proc \in {"running", "ok", "err", "timeout"} => req[r].resv = "held"
            /\ req[r].resv = "noid" =>
                  /\ req[r].proc \in {"notstarted", "dropped"}
                  /\ req[r].child = "none"
                  /\ req[r].pc = "done" =>
                        (req[r].status = 500 /\ ~req[r].temp /\ ~req[r].out)

C30_Witness ==
    \E r \in Reqs :
        /\ req[r].kind = "grayscale" /\ req[r].pc = "done" /\ req[r].resv = "noid"
        /\ req[r].status = 500 /\ ~req[r].temp

(***************************************************************************)
(* Quota plan properties.                                                  *)
(***************************************************************************)
ReserveSent == calc.fn = "reserve_units_for_clerk_user" /\ calc.invoked

\* C31: reserve_units_for_clerk_user sends as monthlyQuota the monthly_units
\* of the plan resolve_plan_id(plan) when the subscription status is active
\* or trialing, and the free plan's 400 units in every other case; if the
\* subscription query fails the reserve action is never invoked and an error
\* is returned.
C31_QuotaOfActivePlan ==
    /\ ReserveSent =>
          calc.monthly_quota =
              IF calc.query = "some" /\ calc.status \in {"active", "trialing"}
              THEN plan_definition(resolve_plan_id(calc.plan))
              ELSE 400
    /\ (calc.fn = "reserve_units_for_clerk_user" /\ calc.query = "err") =>
          (~calc.invoked /\ (calc.pc = "returned" => calc.result = "err"))

\* C31 (amended): the status counts as active or trialing after trimming and
\* ASCII lower-casing.
C31_QuotaOfNormalizedStatus ==
    /\ ReserveSent =>
          calc.monthly_quota =
              IF calc.query = "some" /\ TrimLower(calc.status) \in {"active", "trialing"}
              THEN plan_definition(resolve_plan_id(calc.plan))
              ELSE 400
    /\ (calc.fn = "reserve_units_for_clerk_user" /\ calc.query = "err") =>
          (~calc.invoked /\ (calc.pc = "returned" => calc.result = "err"))

C31_Witness ==
    /\ ReserveSent /\ calc.pc = "returned" /\ calc.result = "ok"
    /\ calc.status = "TRIALING" /\ calc.plan = "Pro" /\ calc.monthly_quota = 25000

(***************************************************************************)
(* Grayscale mode properties.                                              *)
(***************************************************************************)
\* C32: in the grayscale handler a mode that is, trimmed and lower-cased,
\* neither empty, "preview" nor "production" yields a 400 response with the
\* temp file removed and with no page-count job, reservation or conversion;
\* a missing or empty mode is treated as preview.
C32_InvalidModeIs400 ==
    \A r \in Reqs :
        (req[r].kind = "grayscale" /\ req[r].saved) =>
            /\ TrimLower(sink.mode) \notin {"", "preview", "production"} =>
                  /\ req[r].pc \in {"rm_temp_only", "done", "cancelled"}
                  /\ ~req[r].permit /\ req[r].child = "none"
                  /\ req[r].resv = "none" /\ req[r].commits = 0
                  /\ req[r].proc \in {"notstarted", "dropped"} /\ ~req[r].out
                  /\ req[r].pc = "done" => (req[r].status = 400 /\ ~req[r].temp)
            /\ sink.mode = "" =>
                  (GrayscaleMode_parse(sink.mode) = "Preview" /\ req[r].pc # "rm_temp_only")

C32_Witness ==
    \E r \in Reqs :
        /\ req[r].kind = "grayscale" /\ req[r].saved /\ sink.mode = "bogus"
        /\ req[r].pc = "done" /\ req[r].status = 400 /\ ~req[r].temp

(***************************************************************************)
(* Fallback log properties.                                                *)
(***************************************************************************)
FallbackIn(pcs) == {t \in FallbackThreads : calc.thread[t].pc \in pcs}

\* C33: under any interleaving of concurrent page-count calls that fall back,
\* the reason is logged exactly once per process: the first call to
\* log_pdfinfo_fallback (the first to swap the flag) logs, every later or
\* concurrent call is silent.
C33_LoggedExactlyOnce ==
    calc.fn = "log_pdfinfo_fallback" =>
        /\ Len(calc.lines) <= 1
        /\ Len(calc.lines) = Cardinality(FallbackIn({"logged"}))
        /\ Cardinality(FallbackIn({"log", "logged"}))
              = IF calc.HAS_LOGGED_PDFINFO_FALLBACK THEN 1 ELSE 0
        /\ (FallbackIn({"silent", "logged"}) # {} /\ FallbackIn({"swap", "log"}) = {})
              => Len(calc.lines) = 1

C33_Witness ==
    /\ calc.fn = "log_pdfinfo_fallback"
    /\ Len(calc.lines) = 1
    /\ Cardinality(FallbackIn({"silent"})) >= 2

(***************************************************************************)
(* Commit properties.                                                      *)
(***************************************************************************)
\* C34: once the processing step of a request has succeeded, a failure of
\* the commit call (committed = false or an error of the backend call) never
\* turns the request into an error response, on the preflight and on the
\* grayscale path (where only the later read of the output file may fail).
C34_CommitFailureIsNoError ==
    \A r \in Reqs :
        (req[r].kind \in QuotaKinds /\ req[r].proc = "ok" /\ req[r].commits > 0) =>
            /\ req[r].kind = "preflight" => req[r].status \in {0, 200}
            /\ (req[r].kind = "grayscale" /\ req[r].pc \in {"commit", "read_out"})
                  => req[r].status = 0

\* C35: a reservation is committed only for requests whose response is a
\* success: no request that sent the commit of its reservation ends with an
\* error status.
C35_CommittedOnlyOnSuccess ==
    \A r \in Reqs :
        (req[r].kind \in QuotaKinds /\ req[r].commits > 0 /\ req[r].pc = "done")
            => req[r].status = 200

(***************************************************************************)
(* Bucket order properties.                                                *)
(***************************************************************************)
\* C36: in every reachable state, with concurrent callers that read the clock
\* before they take the bucket lock, the timestamps of each per-key bucket
\* are in non-decreasing order from front to back.
C36_BucketSorted ==
    \A k \in Keys :
        \A i, j \in 1..Len(buckets[k]) :
            i < j => buckets[k][i] <= buckets[k][j]

(***************************************************************************)
(* Admission properties.                                                   *)
(***************************************************************************)
\* requests inside `ghostscript_semaphore.acquire().await`
Waiting == {r \in Reqs : req[r].pc \in {"acquire", "acquire_conv"}}

\* C37: no request holds more than one permit at a time and
\* run_ghostscript_job is never entered from inside a job of the same
\* request, so the pipeline cannot deadlock on the semaphore even with
\* capacity 1: whenever a request waits, a permit is free or is held by a
\* request that is running its job, not waiting.
C37_NoNestedAdmission ==
    /\ \A r \in Waiting : ~req[r].permit
    /\ Cardinality(Holders) + permits = ghostscript_concurrency
    /\ Waiting # {} =>
          \/ CanAcquire(permits)
          \/ \E h \in Holders : Suspended(req[h]) /\ h \notin Waiting

C37_Witness ==
    \E r, h \in Reqs :
        /\ req[r].pc = "acquire_conv" /\ ~CanAcquire(permits)
        /\ req[h].permit /\ req[h].kind = "grayscale" /\ req[h].child = "gs"

\* C38: under fair scheduling, and provided every admitted job terminates,
\* every call of run_ghostscript_job that waits for a permit is eventually
\* admitted and eventually returns (or its future is dropped): no call waits
\* for ever.
C38_EveryWaiterAdmitted ==
    \A c \in Jobs :
        /\ (calc.job[c] = "waiting") ~> (calc.job[c] \in {"task", "dropped"})
        /\ (calc.job[c] = "task") ~> (calc.job[c] \in {"ok", "err", "dropped"})

C38_Witness ==
    /\ calc.fn = "run_ghostscript_job"
    /\ \E c, d \in Jobs :
          /\ calc.job[c] = "waiting" /\ ~CanAcquire(calc.available_permits)
          /\ calc.job[d] = "ok"

(***************************************************************************)
(* Issuer properties.                                                      *)
(***************************************************************************)
\* C39: when an expected issuer is configured the issuer check precedes any
\* key-set lookup: no JWKS fetch is made to, and no cache entry created for,
\* an issuer other than the normalized expected issuer, whatever tokens are
\* presented.
C39_OnlyExpectedIssuerFetched ==
    (calc.fn = "verify_token" /\ calc.expected_issuer # "none") =>
        /\ calc.requested \subseteq {calc.expected_issuer}
        /\ calc.cache \subseteq {calc.expected_issuer}
        /\ calc.pc \in {"read", "send"} => calc.issuer = calc.expected_issuer

C39_Witness ==
    /\ calc.fn = "verify_token" /\ calc.config = "https://clerk.example/"
    /\ calc.iss = "https://clerk.example.evil.example"
    /\ calc.result = "JWT issuer mismatch"
    /\ calc.cache = {"https://clerk.example"}

(***************************************************************************)
(* Subscription sync properties.                                           *)
(***************************************************************************)
\* C40: for any user, under any interleaving of concurrently processed
\* webhook events and sync-session requests, subscriptions:createSubscription
\* is invoked at most once: once a record exists, or a create is in flight,
\* every other sync uses subscriptions:updateSubscription.
C40_CreateAtMostOnce ==
    calc.fn = "sync_subscription" =>
        /\ calc.creates <= 1
        /\ \A s \in Syncs :
              (calc.sync[s].pc = "action"
                 /\ calc.sync[s].action_name = "subscriptions:createSubscription")
                  => \A o \in Syncs \ {s} :
                        calc.sync[o].pc = "action" =>
                            calc.sync[o].action_name = "subscriptions:updateSubscription"

====
